---- MODULE Spec2Model ----
(***************************************************************************)
(* A model of minipp (src/minipp/minipp.hpp): the MINI configuration file  *)
(* format.  Text is modelled as a sequence of one-character strings, so    *)
(* that the parser, the value codec and the writer are computed character  *)
(* by character as the code computes them.                                 *)
(***************************************************************************)
EXTENDS Integers, Sequences, FiniteSets, TLC

(***************************************************************************)
(* Bounds of the model (not program constants).                            *)
(***************************************************************************)
\* longest token enumerated exhaustively over an alphabet
MaxTokLen == 3
\* number of lines a behaviour may read from caller-supplied files
MaxLines == 2
\* number of lines a behaviour of the parser and the writer may read
MaxWriteLines == 3
\* number of lines a behaviour of the parser alone may read
MaxParseLines == 4
\* longest integer literal enumerated over the integer alphabet
MaxIntLen == 4
\* longest string payload / string body enumerated
MaxStrLen == 3
\* longest array interior enumerated over the array alphabet
MaxArrLen == 3

(***************************************************************************)
(* EResult (minipp.hpp:33-66) and IsResultOk (minipp.hpp:1002-1005).       *)
(***************************************************************************)
EResult ==
  [ KeyNotPresent |-> -1, KeyAlreadyPresent |-> -2, SectionNotPresent |-> -3,
    SectionAlreadyPresent |-> -4, FileIOError |-> -5, InvalidDataType |-> -6,
    FormatError |-> -7, ArrayDataTypeInconsistency |-> -8,
    BadEscapeSequence |-> -9, UnknownEscapeSequence |-> -10,
    UnescapedStringValue |-> -11, ValueEmpty |-> -12,
    IntegerValueInvalid |-> -13, IntegerValueOutOfRange |-> -14,
    IntegerStyleInvalid |-> -15, FloatValueInvalid |-> -16,
    BooleanValueInvalid |-> -17, ArrayNotEnclosed |-> -18,
    ArrayBracketsInbalanced |-> -19, InvalidName |-> -20,
    SectionExpectedClosingBracket |-> -21, EmptySectionName |-> -22,
    KeyValuePairNotInSection |-> -23, ExpectedKeyValuePair |-> -24,
    KeyEmpty |-> -25, MissingQuote |-> -26,
    Success |-> 1, ValueOverwritten |-> 2 ]

IsResultOk(result) == EResult[result] > 0

(***************************************************************************)
(* Characters.                                                             *)
(***************************************************************************)
DecDigits == {"0", "1", "2", "3", "4", "5", "6", "7", "8", "9"}
LowerLetters ==
  {"a", "b", "c", "d", "e", "f", "g", "h", "i", "j", "k", "l", "m",
   "n", "o", "p", "q", "r", "s", "t", "u", "v", "w", "x", "y", "z"}
UpperLetters ==
  {"A", "B", "C", "D", "E", "F", "G", "H", "I", "J", "K", "L", "M",
   "N", "O", "P", "Q", "R", "S", "T", "U", "V", "W", "X", "Y", "Z"}

\* the value of a digit character in bases up to 16 (strtoll's digit table)
DigitValue ==
  [c \in DecDigits \cup {"a", "b", "c", "d", "e", "f", "A", "B", "C", "D", "E", "F"} |->
     CASE c = "0" -> 0 [] c = "1" -> 1 [] c = "2" -> 2 [] c = "3" -> 3
       [] c = "4" -> 4 [] c = "5" -> 5 [] c = "6" -> 6 [] c = "7" -> 7
       [] c = "8" -> 8 [] c = "9" -> 9
       [] c \in {"a", "A"} -> 10 [] c \in {"b", "B"} -> 11
       [] c \in {"c", "C"} -> 12 [] c \in {"d", "D"} -> 13
       [] c \in {"e", "E"} -> 14 [] c \in {"f", "F"} -> 15]

\* the lower-case digit character of a digit value (operator<< with std::hex)
DigitChar ==
  <<"0", "1", "2", "3", "4", "5", "6", "7", "8", "9", "a", "b", "c", "d", "e", "f">>

\* isspace() in the C locale, as strtoll and strtod skip it
IsCSpace(c) == c \in {" ", "\t", "\n", "\r", "\f"}

(***************************************************************************)
(* std::string helpers.                                                    *)
(***************************************************************************)
\* str.substr(pos, n), pos 0-based; n clipped to the end of the string
Substr(str, pos, n) ==
  SubSeq(str, pos + 1, IF pos + n > Len(str) THEN Len(str) ELSE pos + n)

\* str.substr(pos)
SubstrFrom(str, pos) == SubSeq(str, pos + 1, Len(str))

(***************************************************************************)
(* Tools (minipp.hpp:1032-1127).                                           *)
(***************************************************************************)
\* StringTrim's two loops: the 0-based start and end it stops at.  The
\* first loop stops at str[size] (the terminator); the second loop walks
\* below index 0 when every character is a space or tab: reading str[-1]
\* is outside the string, and the loop is modelled as stopping there.
RECURSIVE TrimStart(_, _)
TrimStart(str, start) ==
  IF start < Len(str) /\ str[start + 1] \in {" ", "\t"}
  THEN TrimStart(str, start + 1) ELSE start

RECURSIVE TrimEnd(_, _)
TrimEnd(str, end) ==
  IF end >= 0 /\ str[end + 1] \in {" ", "\t"}
  THEN TrimEnd(str, end - 1) ELSE end

\* whether StringTrim reads an index outside [0, size]
StringTrimReadsOutside(str) ==
  str # <<>> /\ TrimEnd(str, Len(str) - 1) < 0

StringTrim(str) ==
  IF str = <<>> THEN str
  ELSE LET start == TrimStart(str, 0)
           end == TrimEnd(str, Len(str) - 1)
       IN IF end < 0 THEN <<>>   \* substr(size, huge) after the wrap-around
          ELSE Substr(str, start, end - start + 1)

IsNameValid(name) ==
  \A i \in 1..Len(name) :
    name[i] \in LowerLetters \cup UpperLetters \cup DecDigits \cup {"_"}

FirstIndexOf(str, c) ==
  IF \E i \in 1..Len(str) : str[i] = c
  THEN (CHOOSE i \in 1..Len(str) :
          str[i] = c /\ \A j \in 1..(i - 1) : str[j] # c) - 1
  ELSE -1

SplitInTwo(str, firstLength) ==
  <<Substr(str, 0, firstLength), SubstrFrom(str, firstLength + 1)>>

RECURSIVE SplitFrom(_, _, _, _, _)
SplitFrom(str, delimiter, i, elements, tmp) ==
  IF i > Len(str)
  THEN IF tmp # <<>> THEN Append(elements, tmp) ELSE elements
  ELSE IF str[i] = delimiter
       THEN SplitFrom(str, delimiter, i + 1, Append(elements, tmp), <<>>)
       ELSE SplitFrom(str, delimiter, i + 1, elements, Append(tmp, str[i]))

SplitByDelimiter(str, delimiter) == SplitFrom(str, delimiter, 1, <<>>, <<>>)

RemoveAll(str, old) == SelectSeq(str, LAMBDA ch : ch # old)

IsIntegerDecimal(str) == \A i \in 1..Len(str) : str[i] \in DecDigits

(***************************************************************************)
(* Values.  A value is a record with its class ("type"), its payload       *)
(* ("value"), for an Int its radix style, and its comment lines.           *)
(***************************************************************************)
NoValue == [type |-> "none"]

StringValue(s) == [type |-> "String", value |-> s, comments |-> <<>>]
IntValue(n, style) ==
  [type |-> "Int", value |-> n, style |-> style, comments |-> <<>>]
BooleanValue(b) == [type |-> "Bool", value |-> b, comments |-> <<>>]
FloatValue(d) == [type |-> "Float", value |-> d, comments |-> <<>>]
ArrayValue(vs) == [type |-> "Array", value |-> vs, comments |-> <<>>]

\* what a Parse of a value class returns: the result code and the object
Parsed(result, val) == [res |-> result, val |-> val]
Failed(result) == [res |-> result, val |-> NoValue]

(***************************************************************************)
(* StringValue::Parse (minipp.hpp:398-442): i is the loop index (0-based), *)
(* acc is m_value.                                                         *)
(***************************************************************************)
\* Mutant of StringParseLoop: the ++i after an escape is missing, so the
\* escaped character is scanned again.
RECURSIVE StringParseLoopNoSkip(_, _, _)
StringParseLoopNoSkip(str, i, acc) ==
  IF i >= Len(str) THEN Parsed("Success", StringValue(acc))
  ELSE IF str[i + 1] = "\\"
  THEN IF i + 1 >= Len(str) THEN Failed("BadEscapeSequence")
       ELSE LET e == str[i + 2]
            IN CASE e = "\"" -> StringParseLoopNoSkip(str, i + 1, Append(acc, "\""))
                 [] e = "n" -> StringParseLoopNoSkip(str, i + 1, Append(acc, "\n"))
                 [] e = "t" -> StringParseLoopNoSkip(str, i + 1, Append(acc, "\t"))
                 [] e = "r" -> StringParseLoopNoSkip(str, i + 1, Append(acc, "\r"))
                 [] e = "\\" -> StringParseLoopNoSkip(str, i + 1, Append(acc, "\\"))
                 [] OTHER -> Failed("UnknownEscapeSequence")
  ELSE IF str[i + 1] = "\"" THEN Failed("UnescapedStringValue")
  ELSE StringParseLoopNoSkip(str, i + 1, Append(acc, str[i + 1]))

RECURSIVE StringParseLoop(_, _, _)
StringParseLoop(str, i, acc) ==
  IF i >= Len(str) THEN Parsed("Success", StringValue(acc))
  ELSE IF str[i + 1] = "\\"
  THEN IF i + 1 >= Len(str) THEN Failed("BadEscapeSequence")
       ELSE LET e == str[i + 2]
            IN CASE e = "\"" -> StringParseLoop(str, i + 2, Append(acc, "\""))
                 [] e = "n" -> StringParseLoop(str, i + 2, Append(acc, "\n"))
                 [] e = "t" -> StringParseLoop(str, i + 2, Append(acc, "\t"))
                 [] e = "r" -> StringParseLoop(str, i + 2, Append(acc, "\r"))
                 [] e = "\\" -> StringParseLoop(str, i + 2, Append(acc, "\\"))
                 [] OTHER -> Failed("UnknownEscapeSequence")
  ELSE IF str[i + 1] = "\"" THEN Failed("UnescapedStringValue")
  ELSE StringParseLoop(str, i + 1, Append(acc, str[i + 1]))

StringValueParse(str) == StringParseLoop(str, 0, <<>>)

(***************************************************************************)
(* StringValue::ToString (minipp.hpp:444-478): the loop edits              *)
(* sanitizedValue in place; replace(i, 1, two) and insert(i, 1, ch) are    *)
(* the std::string calls.                                                  *)
(***************************************************************************)
StrReplace1(s, i, two) == SubSeq(s, 1, i) \o two \o SubSeq(s, i + 2, Len(s))
StrInsert1(s, i, ch) == SubSeq(s, 1, i) \o <<ch>> \o SubSeq(s, i + 1, Len(s))

\* Mutant of StringToStringLoop: the case for the carriage return is missing.
RECURSIVE StringToStringLoopNoCR(_, _)
StringToStringLoopNoCR(s, i) ==
  IF i >= Len(s) THEN s
  ELSE LET c == s[i + 1]
       IN CASE c = "\n" -> StringToStringLoopNoCR(StrReplace1(s, i, <<"\\", "n">>), i + 2)
            [] c = "\t" -> StringToStringLoopNoCR(StrReplace1(s, i, <<"\\", "t">>), i + 2)
            [] c = "\\" -> StringToStringLoopNoCR(StrInsert1(s, i, "\\"), i + 2)
            [] c = "\"" -> StringToStringLoopNoCR(StrInsert1(s, i, "\\"), i + 2)
            [] OTHER -> StringToStringLoopNoCR(s, i + 1)

RECURSIVE StringToStringLoop(_, _)
StringToStringLoop(s, i) ==
  IF i >= Len(s) THEN s
  ELSE LET c == s[i + 1]
       IN CASE c = "\n" -> StringToStringLoop(StrReplace1(s, i, <<"\\", "n">>), i + 2)
            [] c = "\t" -> StringToStringLoop(StrReplace1(s, i, <<"\\", "t">>), i + 2)
            [] c = "\r" -> StringToStringLoop(StrReplace1(s, i, <<"\\", "r">>), i + 2)
            [] c = "\\" -> StringToStringLoop(StrInsert1(s, i, "\\"), i + 2)
            [] c = "\"" -> StringToStringLoop(StrInsert1(s, i, "\\"), i + 2)
            [] OTHER -> StringToStringLoop(s, i + 1)

StringValueToString(v) == <<"\"">> \o StringToStringLoop(v.value, 0) \o <<"\"">>

(***************************************************************************)
(* std::stoll(str, nullptr, base): strtoll skips white space, takes an     *)
(* optional sign and (base 16) an optional 0x, then the longest run of     *)
(* digits of the base; what follows the run is ignored.  No digit gives    *)
(* std::invalid_argument, a value outside int64_t std::out_of_range.       *)
(* Indices are 0-based; the digits are compared with the limit digit by    *)
(* digit, so that the 64-bit range is decided without 64-bit arithmetic.   *)
(***************************************************************************)
RECURSIVE SkipSpace(_, _)
SkipSpace(s, i) ==
  IF i < Len(s) /\ IsCSpace(s[i + 1]) THEN SkipSpace(s, i + 1) ELSE i

IsDigitOf(c, base) == c \in DOMAIN DigitValue /\ DigitValue[c] < base

RECURSIVE DigitRunEnd(_, _, _)
DigitRunEnd(s, i, base) ==
  IF i < Len(s) /\ IsDigitOf(s[i + 1], base)
  THEN DigitRunEnd(s, i + 1, base) ELSE i

RECURSIVE StripZeros(_)
StripZeros(digits) ==
  IF Len(digits) > 1 /\ digits[1] = 0 THEN StripZeros(Tail(digits)) ELSE digits

Repeat(d, n) == [i \in 1..n |-> d]

\* the digits of INT64_MAX (neg = FALSE) and of -INT64_MIN (neg = TRUE)
LimitDigits(base, neg) ==
  CASE base = 16 ->
         IF neg THEN <<8>> \o Repeat(0, 15) ELSE <<7>> \o Repeat(15, 15)
    [] base = 2 ->
         IF neg THEN <<1>> \o Repeat(0, 63) ELSE Repeat(1, 63)
    [] OTHER ->
         <<9, 2, 2, 3, 3, 7, 2, 0, 3, 6, 8, 5, 4, 7, 7, 5, 8, 0>>
           \o (IF neg THEN <<8>> ELSE <<7>>)

\* a > b for digit sequences without leading zeros
DigitsGreater(a, b) ==
  \/ Len(a) > Len(b)
  \/ /\ Len(a) = Len(b)
     /\ \E i \in 1..Len(a) :
          a[i] > b[i] /\ \A j \in 1..(i - 1) : a[j] = b[j]

RECURSIVE DigitsToNat(_, _)
DigitsToNat(digits, base) ==
  IF digits = <<>> THEN 0
  ELSE DigitsToNat(SubSeq(digits, 1, Len(digits) - 1), base) * base
         + digits[Len(digits)]

Stoll(s, base) ==
  LET i0 == SkipSpace(s, 0)
      signed == i0 < Len(s) /\ s[i0 + 1] \in {"-", "+"}
      neg == signed /\ s[i0 + 1] = "-"
      i1 == IF signed THEN i0 + 1 ELSE i0
      prefixed == /\ base = 16
                  /\ i1 + 2 < Len(s)
                  /\ s[i1 + 1] = "0"
                  /\ s[i1 + 2] \in {"x", "X"}
                  /\ IsDigitOf(s[i1 + 3], base)
      i2 == IF prefixed THEN i1 + 2 ELSE i1
      end == DigitRunEnd(s, i2, base)
      digits == StripZeros([k \in 1..(end - i2) |-> DigitValue[s[i2 + k]]])
  IN IF end = i2 THEN [status |-> "invalid_argument", value |-> 0]
     ELSE IF DigitsGreater(digits, LimitDigits(base, neg))
     THEN [status |-> "out_of_range", value |-> 0]
     ELSE [status |-> "ok",
           value |-> IF neg THEN 0 - DigitsToNat(digits, base)
                     ELSE DigitsToNat(digits, base)]

(***************************************************************************)
(* IntValue::Parse (minipp.hpp:480-527).                                   *)
(***************************************************************************)
IntFromStoll(r, style) ==
  CASE r.status = "invalid_argument" -> Failed("IntegerValueInvalid")
    [] r.status = "out_of_range" -> Failed("IntegerValueOutOfRange")
    [] OTHER -> Parsed("Success", IntValue(r.value, style))

IntValueParse(str) ==
  LET sanitizedValue == RemoveAll(str, "_")
  IN IF sanitizedValue = <<>> THEN Failed("FormatError")
     ELSE LET lastCharacter == str[Len(str)]
              rest == Substr(str, 0, Len(str) - 1)
          IN IF lastCharacter = "h"
             THEN IntFromStoll(Stoll(rest, 16), "Hexadecimal")
             ELSE IF lastCharacter = "b"
             THEN IntFromStoll(Stoll(rest, 2), "Binary")
             ELSE IF ~IsIntegerDecimal(sanitizedValue)
             THEN Failed("IntegerValueInvalid")
             ELSE IntFromStoll(Stoll(sanitizedValue, 10), "Decimal")

(***************************************************************************)
(* IntValue::ToString (minipp.hpp:529-567).                                *)
(***************************************************************************)
RECURSIVE NatDigits(_, _)
NatDigits(n, base) ==
  IF n < base THEN <<n>>
  ELSE Append(NatDigits(n \div base, base), n % base)

PadLeft(digits, width) ==
  IF Len(digits) >= width THEN digits
  ELSE Repeat(0, width - Len(digits)) \o digits

\* the digits of the value read as an unsigned 64-bit number (two's
\* complement: those of 2^64 - |v| are the complemented digits of |v| - 1)
UnsignedDigits(v, base, width) ==
  IF v >= 0 THEN NatDigits(v, base)
  ELSE LET below == PadLeft(NatDigits(0 - v - 1, base), width)
       IN [i \in 1..width |-> base - 1 - below[i]]

DigitText(digits) == [i \in 1..Len(digits) |-> DigitChar[digits[i] + 1]]

\* Mutant of IntBinaryToString: the test after the loop is left out.
IntBinaryToStringNoZeroTest(v) ==
  LET destination == DigitText(PadLeft(UnsignedDigits(v.value, 2, 64), 64)) \o <<"b">>
      found == FirstIndexOf(destination, "1")
  IN IF found = -1 THEN destination ELSE SubstrFrom(destination, found)

\* Mutant of IntBinaryToString: the leading zeros are not cut off.
IntBinaryToStringPadded(v) ==
  DigitText(PadLeft(UnsignedDigits(v.value, 2, 64), 64)) \o <<"b">>

IntBinaryToString(v) ==
  LET destination == DigitText(PadLeft(UnsignedDigits(v.value, 2, 64), 64)) \o <<"b">>
      found == FirstIndexOf(destination, "1")
      i == IF found = -1 THEN Len(destination) ELSE found
      cut == IF found = -1 THEN destination ELSE SubstrFrom(destination, i)
  IN IF i = Len(cut) THEN <<"0", "b">> ELSE cut

IntValueToString(v) ==
  CASE v.style = "Decimal" ->
         IF v.value < 0 THEN <<"-">> \o DigitText(NatDigits(0 - v.value, 10))
         ELSE DigitText(NatDigits(v.value, 10))
    [] v.style = "Hexadecimal" ->
         DigitText(UnsignedDigits(v.value, 16, 16)) \o <<"h">>
    [] OTHER -> IntBinaryToString(v)

(***************************************************************************)
(* BooleanValue (minipp.hpp:569-587).                                      *)
(***************************************************************************)
BooleanValueParse(str) ==
  IF str = <<"t", "r", "u", "e">> THEN Parsed("Success", BooleanValue(TRUE))
  ELSE IF str = <<"f", "a", "l", "s", "e">> THEN Parsed("Success", BooleanValue(FALSE))
  ELSE Failed("BooleanValueInvalid")

BooleanValueToString(v) ==
  IF v.value THEN <<"t", "r", "u", "e">> ELSE <<"f", "a", "l", "s", "e">>

(***************************************************************************)
(* std::stod(str): strtod skips white space, takes an optional sign, then  *)
(* inf / nan, or decimal digits with an optional point and an optional     *)
(* exponent; what follows is ignored.  The double is modelled by the       *)
(* decimal it is read from: a sign, the digits before the point and the    *)
(* digits after it (hexadecimal floats are not modelled: no alphabet of    *)
(* the model holds an x).                                                  *)
(***************************************************************************)
RECURSIVE StripTrailingZeros(_)
StripTrailingZeros(digits) ==
  IF digits # <<>> /\ digits[Len(digits)] = 0
  THEN StripTrailingZeros(SubSeq(digits, 1, Len(digits) - 1)) ELSE digits

\* digits with the decimal point after the first `point` of them
Decimal(neg, digits, point) ==
  LET int == IF point <= 0 THEN <<0>>
             ELSE IF point >= Len(digits)
             THEN digits \o Repeat(0, point - Len(digits))
             ELSE SubSeq(digits, 1, point)
      frac == IF point <= 0 THEN Repeat(0, 0 - point) \o digits
              ELSE SubSeq(digits, point + 1, Len(digits))
  IN [kind |-> "num", neg |-> neg,
      int |-> StripZeros(IF int = <<>> THEN <<0>> ELSE int),
      frac |-> StripTrailingZeros(frac)]

LowerOf(c) ==
  CASE c = "I" -> "i" [] c = "N" -> "n" [] c = "F" -> "f" [] c = "A" -> "a"
    [] OTHER -> c

\* the first three characters at i1 in lower case (inf, nan)
StodWord(s, i1) ==
  [k \in 1..(IF Len(s) - i1 >= 3 THEN 3 ELSE 0) |-> LowerOf(s[i1 + k])]

StodHasE(s, fracEnd) == fracEnd < Len(s) /\ s[fracEnd + 1] \in {"e", "E"}

StodExpSigned(s, fracEnd) ==
  StodHasE(s, fracEnd) /\ fracEnd + 1 < Len(s) /\ s[fracEnd + 2] \in {"-", "+"}

\* the exponent, whose digits are s[eStart + 1 .. eEnd]; an e without
\* digits is not part of the number
StodExpAt(s, fracEnd, eStart, eEnd) ==
  IF StodHasE(s, fracEnd) /\ eEnd > eStart
  THEN IF StodExpSigned(s, fracEnd) /\ s[fracEnd + 2] = "-"
       THEN 0 - DigitsToNat([k \in 1..(eEnd - eStart) |-> DigitValue[s[eStart + k]]], 10)
       ELSE DigitsToNat([k \in 1..(eEnd - eStart) |-> DigitValue[s[eStart + k]]], 10)
  ELSE 0

StodExpFrom(s, fracEnd, eStart) ==
  StodExpAt(s, fracEnd, eStart,
            IF StodHasE(s, fracEnd) THEN DigitRunEnd(s, eStart, 10) ELSE eStart)

StodExp(s, fracEnd) ==
  StodExpFrom(s, fracEnd, IF StodExpSigned(s, fracEnd) THEN fracEnd + 2 ELSE fracEnd + 1)

\* the digits before the point end at intEnd, those after it at fracEnd
StodNumber(s, neg, i1, intEnd, fracEnd) ==
  LET nInt == intEnd - i1
      nFrac == IF fracEnd > intEnd THEN fracEnd - (intEnd + 1) ELSE 0
  IN IF nInt + nFrac = 0
     THEN [status |-> "invalid_argument", value |-> 0]
     ELSE [status |-> "ok",
           value |-> Decimal(neg,
                             [k \in 1..(nInt + nFrac) |->
                                IF k <= nInt THEN DigitValue[s[i1 + k]]
                                ELSE DigitValue[s[intEnd + 1 + (k - nInt)]]],
                             nInt + StodExp(s, fracEnd))]

StodMantissa(s, neg, i1, intEnd) ==
  StodNumber(s, neg, i1, intEnd,
             IF intEnd < Len(s) /\ s[intEnd + 1] = "."
             THEN DigitRunEnd(s, intEnd + 1, 10) ELSE intEnd)

StodFrom(s, neg, i1) ==
  IF StodWord(s, i1) = <<"i", "n", "f">>
  THEN [status |-> "ok", value |-> [kind |-> "inf", neg |-> neg]]
  ELSE IF StodWord(s, i1) = <<"n", "a", "n">>
  THEN [status |-> "ok", value |-> [kind |-> "nan", neg |-> neg]]
  ELSE StodMantissa(s, neg, i1, DigitRunEnd(s, i1, 10))

StodSign(s, i0) ==
  IF i0 < Len(s) /\ s[i0 + 1] \in {"-", "+"}
  THEN StodFrom(s, s[i0 + 1] = "-", i0 + 1)
  ELSE StodFrom(s, FALSE, i0)

Stod(s) == StodSign(s, SkipSpace(s, 0))

(***************************************************************************)
(* FloatValue (minipp.hpp:589-608).  std::to_string(double) prints with    *)
(* "%f": the digits before the point, a point and six digits after it,     *)
(* rounded to nearest.                                                     *)
(***************************************************************************)
FloatValueParse(str) ==
  LET r == Stod(str)
  IN IF r.status = "ok" THEN Parsed("Success", FloatValue(r.value))
     ELSE Failed("FloatValueInvalid")

RECURSIVE AddOne(_)
AddOne(digits) ==
  IF digits = <<>> THEN <<1>>
  ELSE IF digits[Len(digits)] < 9
  THEN [digits EXCEPT ![Len(digits)] = @ + 1]
  ELSE Append(AddOne(SubSeq(digits, 1, Len(digits) - 1)), 0)

FloatValueToString(v) ==
  LET d == v.value
      sign == IF d.neg THEN <<"-">> ELSE <<>>
  IN IF d.kind = "inf" THEN sign \o <<"i", "n", "f">>
     ELSE IF d.kind = "nan" THEN sign \o <<"n", "a", "n">>
     ELSE LET six == [k \in 1..6 |-> IF k <= Len(d.frac) THEN d.frac[k] ELSE 0]
              tail == SubSeq(d.frac, 7, Len(d.frac))
              up == /\ tail # <<>>
                    /\ \/ tail[1] > 5
                       \/ tail[1] = 5 /\ (Len(tail) > 1 \/ six[6] % 2 = 1)
              kept == IF up THEN AddOne(d.int \o six) ELSE d.int \o six
              nInt == Len(kept) - 6
          IN sign \o DigitText(SubSeq(kept, 1, nInt)) \o <<".">>
               \o DigitText(SubSeq(kept, nInt + 1, Len(kept)))

(***************************************************************************)
(* ArrayValue::Parse, the scan (minipp.hpp:624-694): i is the loop index   *)
(* (0-based).  Returns the error, or the elements and currentElement.      *)
(***************************************************************************)
RECURSIVE ArrayScan(_, _, _, _, _, _)
ArrayScan(str, i, bracketCounter, isInString, elements, currentElement) ==
  IF i >= Len(str)
  THEN IF bracketCounter # 0
       THEN [res |-> "ArrayBracketsInbalanced", elements |-> <<>>]
       ELSE [res |-> "Success",
             elements |-> IF currentElement # <<>>
                          THEN Append(elements, currentElement) ELSE elements]
  ELSE LET c == str[i + 1]
       IN IF isInString
          THEN IF c = "\\"
               THEN IF i + 1 >= Len(str)
                    THEN [res |-> "BadEscapeSequence", elements |-> <<>>]
                    ELSE ArrayScan(str, i + 2, bracketCounter, TRUE, elements,
                                   currentElement \o <<c, str[i + 2]>>)
               ELSE ArrayScan(str, i + 1, bracketCounter, c # "\"", elements,
                              Append(currentElement, c))
          ELSE IF c = "\\"
          THEN ArrayScan(str, i + 2, bracketCounter, FALSE, elements, currentElement)
          ELSE IF c = "\""
          THEN ArrayScan(str, i + 1, bracketCounter, TRUE, elements,
                         Append(currentElement, c))
          ELSE IF c = "["
          THEN ArrayScan(str, i + 1, bracketCounter + 1, FALSE, elements,
                         IF bracketCounter + 1 > 1
                         THEN Append(currentElement, c) ELSE currentElement)
          ELSE IF c = "]"
          THEN IF bracketCounter - 1 < 0
               THEN [res |-> "ArrayBracketsInbalanced", elements |-> <<>>]
               ELSE ArrayScan(str, i + 1, bracketCounter - 1, FALSE, elements,
                              IF bracketCounter - 1 >= 1
                              THEN Append(currentElement, c) ELSE currentElement)
          ELSE IF c = "," /\ bracketCounter = 1
          THEN ArrayScan(str, i + 1, bracketCounter, FALSE,
                         Append(elements, currentElement), <<>>)
          ELSE IF c # " " /\ c # "\t"
          THEN ArrayScan(str, i + 1, bracketCounter, FALSE, elements,
                         Append(currentElement, c))
          ELSE ArrayScan(str, i + 1, bracketCounter, FALSE, elements, currentElement)

(***************************************************************************)
(* Value::ParseValue (minipp.hpp:338-394), ArrayValue::Parse               *)
(* (minipp.hpp:616-720) and its element loop (minipp.hpp:698-719).         *)
(* ParseValue reads value.front() and value.back() unchecked: on an empty  *)
(* token that is undefined behaviour, reported as "UndefinedBehaviour"     *)
(* (no EResult; the caller decides what the build does with it).           *)
(***************************************************************************)
RECURSIVE ParseValue(_)
RECURSIVE ArrayValueParse(_)
RECURSIVE ArrayElementLoop(_, _, _, _, _)

\* Mutant of ArrayElementLoop: the comparison of the element classes is missing.
ArrayElementLoopUnchecked(elements, k, hasTypeHash, lastTypeIdHash, m_values) ==
  IF k > Len(elements) THEN Parsed("Success", ArrayValue(m_values))
  ELSE LET parsed == ParseValue(elements[k])
       IN IF parsed.val = NoValue THEN Failed(parsed.res)
          ELSE ArrayElementLoop(elements, k + 1, TRUE, parsed.val.type,
                                Append(m_values, parsed.val))

ArrayElementLoop(elements, k, hasTypeHash, lastTypeIdHash, m_values) ==
  IF k > Len(elements) THEN Parsed("Success", ArrayValue(m_values))
  ELSE LET parsed == ParseValue(elements[k])
       IN IF parsed.val = NoValue THEN Failed(parsed.res)
          ELSE IF ~hasTypeHash
          THEN ArrayElementLoop(elements, k + 1, TRUE, parsed.val.type,
                                Append(m_values, parsed.val))
          ELSE IF parsed.val.type # lastTypeIdHash
          THEN Failed("ArrayDataTypeInconsistency")
          ELSE ArrayElementLoop(elements, k + 1, TRUE, lastTypeIdHash,
                                Append(m_values, parsed.val))

ArrayValueParse(str) ==
  IF str[1] # "[" \/ str[Len(str)] # "]" THEN Failed("FormatError")
  ELSE LET scan == ArrayScan(str, 0, 0, FALSE, <<>>, <<>>)
       IN IF scan.res # "Success" THEN Failed(scan.res)
          ELSE ArrayElementLoop(scan.elements, 1, FALSE, "none", <<>>)

\* the parse of one value class, and ParseValue's test of its result
ClassParse(parseResult) ==
  IF parseResult.res = "UndefinedBehaviour" THEN Failed(parseResult.res)
  ELSE IF ~IsResultOk(parseResult.res) THEN Failed(parseResult.res)
  ELSE parseResult

\* Mutant of ParseValue: the last character is tested before the first.
ParseValueLastFirst(value) ==
  IF value = <<>> THEN Failed("UndefinedBehaviour")
  ELSE LET valueFirstChar == value[1]
           valueLastChar == value[Len(value)]
       IN IF valueLastChar = "e" THEN ClassParse(BooleanValueParse(value))
          ELSE IF valueLastChar = "f" THEN ClassParse(FloatValueParse(value))
          ELSE IF valueLastChar = "]" THEN ClassParse(ArrayValueParse(value))
          ELSE IF valueFirstChar = "\""
          THEN IF valueLastChar # "\"" THEN Failed("MissingQuote")
               ELSE ClassParse(StringValueParse(Substr(value, 1, Len(value) - 2)))
          ELSE ClassParse(IntValueParse(value))

ParseValue(value) ==
  IF value = <<>> THEN Failed("UndefinedBehaviour")
  ELSE LET valueFirstChar == value[1]
           valueLastChar == value[Len(value)]
       IN IF valueFirstChar = "\""
          THEN IF valueLastChar # "\"" THEN Failed("MissingQuote")
               ELSE ClassParse(StringValueParse(Substr(value, 1, Len(value) - 2)))
          ELSE IF valueLastChar = "e" THEN ClassParse(BooleanValueParse(value))
          ELSE IF valueLastChar = "f" THEN ClassParse(FloatValueParse(value))
          ELSE IF valueLastChar = "]" THEN ClassParse(ArrayValueParse(value))
          ELSE ClassParse(IntValueParse(value))

(***************************************************************************)
(* Value::ToString for every class; ArrayValue::ToString                   *)
(* (minipp.hpp:722-752) checks the element classes again.                  *)
(***************************************************************************)
RECURSIVE ValueToString(_)
RECURSIVE ArrayToStringLoop(_, _, _, _, _)

\* Mutant of ArrayToStringLoop: two arrays count as the same class only when
\* their first elements do.
ArrayToStringLoopDeep(m_values, k, hasTypeHash, lastTypeIdHash, ss) ==
  IF k > Len(m_values)
  THEN [res |-> "Success",
        text |-> <<"[">> \o (IF ss # <<>> THEN Substr(ss, 0, Len(ss) - 2) ELSE ss)
                   \o <<"]">>]
  ELSE LET r == ValueToString(m_values[k])
       IN IF ~IsResultOk(r.res) THEN [res |-> r.res, text |-> <<>>]
          ELSE IF hasTypeHash /\ m_values[k].type # lastTypeIdHash
          THEN [res |-> "ArrayDataTypeInconsistency", text |-> <<>>]
          ELSE IF /\ k > 1
                  /\ m_values[k].type = "Array"
                  /\ m_values[k].value # <<>>
                  /\ m_values[k - 1].value # <<>>
                  /\ m_values[k].value[1].type # m_values[k - 1].value[1].type
          THEN [res |-> "ArrayDataTypeInconsistency", text |-> <<>>]
          ELSE ArrayToStringLoop(m_values, k + 1, TRUE, m_values[k].type,
                                 ss \o r.text \o <<",", " ">>)

ArrayToStringLoop(m_values, k, hasTypeHash, lastTypeIdHash, ss) ==
  IF k > Len(m_values)
  THEN [res |-> "Success",
        text |-> <<"[">> \o (IF ss # <<>> THEN Substr(ss, 0, Len(ss) - 2) ELSE ss)
                   \o <<"]">>]
  ELSE LET r == ValueToString(m_values[k])
       IN IF ~IsResultOk(r.res) THEN [res |-> r.res, text |-> <<>>]
          ELSE IF hasTypeHash /\ m_values[k].type # lastTypeIdHash
          THEN [res |-> "ArrayDataTypeInconsistency", text |-> <<>>]
          ELSE ArrayToStringLoop(m_values, k + 1, TRUE, m_values[k].type,
                                 ss \o r.text \o <<",", " ">>)

ValueToString(v) ==
  CASE v.type = "String" -> [res |-> "Success", text |-> StringValueToString(v)]
    [] v.type = "Int" -> [res |-> "Success", text |-> IntValueToString(v)]
    [] v.type = "Bool" -> [res |-> "Success", text |-> BooleanValueToString(v)]
    [] v.type = "Float" -> [res |-> "Success", text |-> FloatValueToString(v)]
    [] OTHER -> ArrayToStringLoop(v.value, 1, FALSE, "none", <<>>)

(***************************************************************************)
(* Section (minipp.hpp:193-281): m_values and m_subSections are maps from  *)
(* names to values and to sections, m_comments the comment lines.  A       *)
(* Section* is modelled by the path of names from the root section.        *)
(***************************************************************************)
EmptyMap == [k \in {} |-> NoValue]
EmptySection == [values |-> EmptyMap, subSections |-> EmptyMap, comments |-> <<>>]

\* m[k] = v
MapPut(m, k, v) == [x \in DOMAIN m \cup {k} |-> IF x = k THEN v ELSE m[x]]

RECURSIVE SectionAt(_, _)
SectionAt(section, path) ==
  IF path = <<>> THEN section
  ELSE SectionAt(section.subSections[Head(path)], Tail(path))

\* the tree with the section at path replaced
RECURSIVE PutSection(_, _, _)
PutSection(section, path, new) ==
  IF path = <<>> THEN new
  ELSE [section EXCEPT !.subSections[Head(path)] = PutSection(@, Tail(path), new)]

\* Mutant of SectionGetValue: the final segment is looked up in the section
\* the call was made on instead of the section reached.
RECURSIVE SectionGetValueShallow(_, _, _)
SectionGetValueShallow(section, key, type) ==
  LET firstSeparatorIndex == FirstIndexOf(key, ".")
  IN IF firstSeparatorIndex # -1
     THEN LET thisKey == Substr(key, 0, firstSeparatorIndex)
              rest == SubstrFrom(key, firstSeparatorIndex + 1)
          IN IF thisKey \notin DOMAIN section.subSections
             THEN Failed("SectionNotPresent")
             ELSE SectionGetValueShallow(section, rest, type)
     ELSE IF key \notin DOMAIN section.values THEN Failed("KeyNotPresent")
     ELSE IF section.values[key].type # type THEN Failed("InvalidDataType")
     ELSE Parsed("Success", section.values[key])

\* Section::GetValue<ValueDataType> (minipp.hpp:217-245); `type` is the
\* class the dynamic_cast asks for
RECURSIVE SectionGetValue(_, _, _)
SectionGetValue(section, key, type) ==
  LET firstSeparatorIndex == FirstIndexOf(key, ".")
  IN IF firstSeparatorIndex # -1
     THEN LET thisKey == Substr(key, 0, firstSeparatorIndex)
              rest == SubstrFrom(key, firstSeparatorIndex + 1)
          IN IF thisKey \notin DOMAIN section.subSections
             THEN Failed("SectionNotPresent")
             ELSE SectionGetValue(section.subSections[thisKey], rest, type)
     ELSE IF key \notin DOMAIN section.values THEN Failed("KeyNotPresent")
     ELSE IF section.values[key].type # type THEN Failed("InvalidDataType")
     ELSE Parsed("Success", section.values[key])

\* Mutant of SectionGetValueOrDefault: the result of GetValue is compared
\* with KeyNotPresent only.
SectionGetValueOrDefaultKeyOnly(section, key, type, defaultValue) ==
  IF SectionGetValue(section, key, type).res = "KeyNotPresent" THEN defaultValue
  ELSE IF SectionGetValue(section, key, type).val = NoValue THEN 0
  ELSE SectionGetValue(section, key, type).val.value

\* Section::GetValueOrDefault<ValueDataType> (minipp.hpp:266-276): the
\* payload returned
SectionGetValueOrDefault(section, key, type, defaultValue) ==
  IF SectionGetValue(section, key, type).res # "Success" THEN defaultValue
  ELSE SectionGetValue(section, key, type).val.value

\* Mutant of SectionSetValue: allowOverwrite is not consulted.
SectionSetValueAlways(section, name, value, allowOverwrite) ==
  [res |-> IF name \in DOMAIN section.values THEN "ValueOverwritten" ELSE "Success",
   section |-> [section EXCEPT !.values = MapPut(@, name, value)]]

\* Section::SetValue (minipp.hpp:247-264): the result and the section after
SectionSetValue(section, name, value, allowOverwrite) ==
  LET present == name \in DOMAIN section.values
  IN IF present /\ ~allowOverwrite
     THEN [res |-> "KeyAlreadyPresent", section |-> section]
     ELSE [res |-> IF present THEN "ValueOverwritten" ELSE "Success",
           section |-> [section EXCEPT !.values = MapPut(@, name, value)]]

\* Section::GetSubSection (minipp.hpp:764-788): the result and the path of
\* the section found, relative to the section the call is made on
RECURSIVE SectionGetSubSection(_, _)
SectionGetSubSection(section, key) ==
  LET pathIndex == FirstIndexOf(key, ".")
      thisKey == IF pathIndex # -1 THEN Substr(key, 0, pathIndex) ELSE key
      rest == IF pathIndex # -1 THEN SubstrFrom(key, pathIndex + 1) ELSE <<>>
  IN IF thisKey \notin DOMAIN section.subSections
     THEN [res |-> "SectionNotPresent", path |-> <<>>]
     ELSE IF rest = <<>> THEN [res |-> "Success", path |-> <<thisKey>>]
     ELSE LET below == SectionGetSubSection(section.subSections[thisKey], rest)
          IN [res |-> below.res,
              path |-> IF below.res = "Success" THEN <<thisKey>> \o below.path ELSE <<>>]

\* Mutant of SectionSetSubSection: allowOverwrite is not consulted.
SectionSetSubSectionAlways(section, name, value, allowOverwrite) ==
  [res |-> "Success",
   section |-> [section EXCEPT !.subSections = MapPut(@, name, value)]]

\* Section::SetSubSection (minipp.hpp:790-801): the result and the section after
SectionSetSubSection(section, name, value, allowOverwrite) ==
  IF name \in DOMAIN section.subSections /\ ~allowOverwrite
  THEN [res |-> "SectionAlreadyPresent", section |-> section]
  ELSE [res |-> "Success",
        section |-> [section EXCEPT !.subSections = MapPut(@, name, value)]]

(***************************************************************************)
(* MiniPPFile::WriteSection (minipp.hpp:803-849).  The lines written are   *)
(* a sequence of texts (each `<< std::endl` ends one).  The iteration      *)
(* order of std::unordered_map is unspecified: every order of the keys and *)
(* of the subsections is a possible output, so the operator yields the set *)
(* of possible results [res, lines].                                       *)
(***************************************************************************)
Orders(S) ==
  {p \in [1..Cardinality(S) -> S] :
     \A i, j \in 1..Cardinality(S) : i # j => p[i] # p[j]}

\* Mutant of WriteValues: no blank line ends the key/value block.
RECURSIVE WriteValuesNoBlank(_, _, _, _)
WriteValuesNoBlank(section, order, k, lines) ==
  IF k > Len(order) THEN [res |-> "Success", lines |-> lines]
  ELSE LET key == order[k]
           value == section.values[key]
           result == ValueToString(value)
           withComments == lines \o value.comments
       IN IF ~IsNameValid(key) THEN [res |-> "InvalidName", lines |-> lines]
          ELSE IF ~IsResultOk(result.res)
          THEN [res |-> result.res,
                lines |-> Append(withComments, key \o <<" ", "=", " ">>)]
          ELSE WriteValuesNoBlank(section, order, k + 1,
                                  Append(withComments,
                                         key \o <<" ", "=", " ">> \o result.text))

\* the key/value block, written in the given order of the keys
RECURSIVE WriteValues(_, _, _, _)
WriteValues(section, order, k, lines) ==
  IF k > Len(order) THEN [res |-> "Success", lines |-> Append(lines, <<>>)]
  ELSE LET key == order[k]
           value == section.values[key]
           result == ValueToString(value)
           withComments == lines \o value.comments
       IN IF ~IsNameValid(key) THEN [res |-> "InvalidName", lines |-> lines]
          ELSE IF ~IsResultOk(result.res)
          THEN [res |-> result.res,
                lines |-> Append(withComments, key \o <<" ", "=", " ">>)]
          ELSE WriteValues(section, order, k + 1,
                           Append(withComments, key \o <<" ", "=", " ">> \o result.text))

RECURSIVE WriteSection(_, _)
RECURSIVE WriteSubSections(_, _, _, _, _)

WriteSubSections(section, order, k, partTreeName, lines) ==
  IF k > Len(order) THEN {[res |-> "Success", lines |-> lines]}
  ELSE LET name == order[k]
           sub == section.subSections[name]
           header == <<"[">> \o partTreeName \o name \o <<"]">>
           head == Append(lines \o sub.comments, header)
       IN IF ~IsNameValid(name) THEN {[res |-> "InvalidName", lines |-> lines]}
          ELSE UNION
                 { IF ~IsResultOk(below.res)
                   THEN {[res |-> below.res, lines |-> head \o below.lines]}
                   ELSE WriteSubSections(section, order, k + 1, partTreeName,
                                         head \o below.lines)
                   : below \in WriteSection(sub, partTreeName \o name) }

WriteSection(section, partTreeName) ==
  LET written ==
        IF Cardinality(DOMAIN section.values) > 0
        THEN {WriteValues(section, order, 1, <<>>) : order \in Orders(DOMAIN section.values)}
        ELSE {[res |-> "Success", lines |-> <<>>]}
      prefix == IF partTreeName # <<>> THEN Append(partTreeName, ".") ELSE partTreeName
  IN UNION
       { IF ~IsResultOk(w.res) THEN {w}
         ELSE UNION {WriteSubSections(section, order, 1, prefix, w.lines)
                       : order \in Orders(DOMAIN section.subSections)}
         : w \in written }

(***************************************************************************)
(* MiniPPFile::Parse, the body of the line loop (minipp.hpp:874-986).      *)
(* st holds m_rootSection and the locals currentSection (<<>> is nullptr,  *)
(* <<path>> a section) and commentBuffer.  The result is "Continue" when   *)
(* the loop goes on to the next line, otherwise the code Parse returns.    *)
(***************************************************************************)
NullSection == <<>>
\* Mutant of PointerTo: every pointer is to the root section.
PointerToRoot(path) == <<<<>>>>

PointerTo(path) == <<path>>

\* Mutant of SectionPathLoop: ubSection is not advanced to the section just
\* created, so every segment becomes a child of the root.
RECURSIVE SectionPathLoopFlat(_, _, _, _)
SectionPathLoopFlat(rootSection, sectionPath, i, ubSection) ==
  IF i >= Len(sectionPath)
  THEN [res |-> "Success", root |-> rootSection,
        ubSection |-> <<sectionPath[Len(sectionPath)]>>]
  ELSE LET sectionName == sectionPath[i + 1]
           set == SectionSetSubSection(rootSection, sectionName, EmptySection, FALSE)
       IN IF ~IsNameValid(sectionName)
          THEN [res |-> "InvalidName", root |-> rootSection, ubSection |-> ubSection]
          ELSE IF set.res = "SectionAlreadyPresent" /\ i = Len(sectionPath) - 1
          THEN [res |-> "SectionAlreadyPresent", root |-> rootSection,
                ubSection |-> ubSection]
          ELSE SectionPathLoopFlat(set.section, sectionPath, i + 1, ubSection)

\* Mutant of SectionPathLoop: a last segment that exists is descended into
\* like the segments before it.
RECURSIVE SectionPathLoopReuse(_, _, _, _)
SectionPathLoopReuse(rootSection, sectionPath, i, ubSection) ==
  IF i >= Len(sectionPath)
  THEN [res |-> "Success", root |-> rootSection, ubSection |-> ubSection]
  ELSE LET sectionName == sectionPath[i + 1]
           set == SectionSetSubSection(SectionAt(rootSection, ubSection),
                                       sectionName, EmptySection, FALSE)
           after == PutSection(rootSection, ubSection, set.section)
           got == SectionGetSubSection(set.section, sectionName)
       IN IF ~IsNameValid(sectionName)
          THEN [res |-> "InvalidName", root |-> rootSection, ubSection |-> ubSection]
          ELSE SectionPathLoopReuse(after, sectionPath, i + 1,
                                    IF got.res = "Success" THEN ubSection \o got.path
                                    ELSE ubSection)

\* the section path loop of a header line (minipp.hpp:908-926): i is the
\* loop index (0-based), ubSection the path of the section reached
RECURSIVE SectionPathLoop(_, _, _, _)
SectionPathLoop(rootSection, sectionPath, i, ubSection) ==
  IF i >= Len(sectionPath)
  THEN [res |-> "Success", root |-> rootSection, ubSection |-> ubSection]
  ELSE LET sectionName == sectionPath[i + 1]
           set == SectionSetSubSection(SectionAt(rootSection, ubSection),
                                       sectionName, EmptySection, FALSE)
           after == PutSection(rootSection, ubSection, set.section)
           got == SectionGetSubSection(set.section, sectionName)
       IN IF ~IsNameValid(sectionName)
          THEN [res |-> "InvalidName", root |-> rootSection, ubSection |-> ubSection]
          ELSE IF set.res = "SectionAlreadyPresent" /\ i = Len(sectionPath) - 1
          THEN [res |-> "SectionAlreadyPresent", root |-> after, ubSection |-> ubSection]
          ELSE SectionPathLoop(after, sectionPath, i + 1,
                               IF got.res = "Success" THEN ubSection \o got.path
                               ELSE ubSection)

Stop(st, result) == [st EXCEPT !.res = result]

\* Mutant of ParseHeaderLine: a header whose last segment exists is accepted
\* and makes the existing section current.
ParseHeaderLineTolerant(st, currentLine) ==
  LET sectionPathStr == StringTrim(Substr(currentLine, 1, Len(currentLine) - 2))
      sectionPath == SplitByDelimiter(sectionPathStr, ".")
      loop == SectionPathLoop(st.root, sectionPath, 0, <<>>)
      at == IF loop.res = "Success" THEN loop.ubSection ELSE sectionPath
  IN IF currentLine[Len(currentLine)] # "]"
     THEN Stop(st, "SectionExpectedClosingBracket")
     ELSE IF sectionPathStr = <<>> THEN Stop(st, "EmptySectionName")
     ELSE IF loop.res = "InvalidName"
     THEN [st EXCEPT !.res = loop.res, !.root = loop.root]
     ELSE [res |-> "Continue",
           root |-> PutSection(loop.root, at,
                               [SectionAt(loop.root, at)
                                  EXCEPT !.comments = st.commentBuffer]),
           currentSection |-> PointerTo(at),
           commentBuffer |-> <<>>]

\* a header line (minipp.hpp:887-931)
ParseHeaderLine(st, currentLine) ==
  LET sectionPathStr == StringTrim(Substr(currentLine, 1, Len(currentLine) - 2))
      loop == SectionPathLoop(st.root, SplitByDelimiter(sectionPathStr, "."), 0, <<>>)
  IN IF currentLine[Len(currentLine)] # "]"
     THEN Stop(st, "SectionExpectedClosingBracket")
     ELSE IF sectionPathStr = <<>> THEN Stop(st, "EmptySectionName")
     ELSE IF loop.res # "Success" THEN [st EXCEPT !.res = loop.res, !.root = loop.root]
     ELSE [res |-> "Continue",
           root |-> PutSection(loop.root, loop.ubSection,
                               [SectionAt(loop.root, loop.ubSection)
                                  EXCEPT !.comments = st.commentBuffer]),
           currentSection |-> PointerTo(loop.ubSection),
           commentBuffer |-> <<>>]

\* Mutant of ParseSetValue: the result of SetValue is not looked at.
ParseSetValueLenient(st, valueSetResult) ==
  [res |-> "Continue",
   root |-> PutSection(st.root, st.currentSection[1], valueSetResult.section),
   currentSection |-> st.currentSection,
   commentBuffer |-> <<>>]

\* the end of the key-value branch (minipp.hpp:977-985): valueSetResult is
\* what currentSection->SetValue returned
ParseSetValue(st, valueSetResult) ==
  [res |-> IF valueSetResult.res # "Success" THEN valueSetResult.res ELSE "Continue",
   root |-> PutSection(st.root, st.currentSection[1], valueSetResult.section),
   currentSection |-> st.currentSection,
   commentBuffer |-> <<>>]

\* Mutant of ParseKeyValue: the comment buffer is not attached to the value.
ParseKeyValueNoComments(st, key, parsed) ==
  IF parsed.val = NoValue THEN Stop(st, parsed.res)
  ELSE ParseSetValue(st,
         SectionSetValue(SectionAt(st.root, st.currentSection[1]), key,
                         parsed.val, FALSE))

\* the key-value branch from the call of ParseValue on (minipp.hpp:968-985)
ParseKeyValue(st, key, parsed) ==
  IF parsed.val = NoValue THEN Stop(st, parsed.res)
  ELSE ParseSetValue(st,
         SectionSetValue(SectionAt(st.root, st.currentSection[1]), key,
                         [parsed.val EXCEPT !.comments = st.commentBuffer], FALSE))

\* the key-value branch from the split at the first '=' on (minipp.hpp:941-985)
ParseKeyValuePair(st, key, text) ==
  IF key = <<>> THEN Stop(st, "KeyEmpty")
  ELSE IF ~IsNameValid(key) THEN Stop(st, "InvalidName")
  ELSE IF text = <<>> THEN Stop(st, "ValueEmpty")
  ELSE ParseKeyValue(st, key, ParseValue(text))

\* Mutant of ParseKeyValueLine: the '=' is looked for before the current
\* section is tested.
ParseKeyValueLineEqualsFirst(st, currentLine) ==
  IF FirstIndexOf(currentLine, "=") = -1 THEN Stop(st, "ExpectedKeyValuePair")
  ELSE IF st.currentSection = NullSection THEN Stop(st, "KeyValuePairNotInSection")
  ELSE ParseKeyValuePair(
         st,
         StringTrim(SplitInTwo(currentLine, FirstIndexOf(currentLine, "="))[1]),
         StringTrim(SplitInTwo(currentLine, FirstIndexOf(currentLine, "="))[2]))

\* a key-value line (minipp.hpp:932-986)
ParseKeyValueLine(st, currentLine) ==
  IF st.currentSection = NullSection THEN Stop(st, "KeyValuePairNotInSection")
  ELSE IF FirstIndexOf(currentLine, "=") = -1 THEN Stop(st, "ExpectedKeyValuePair")
  ELSE ParseKeyValuePair(
         st,
         StringTrim(SplitInTwo(currentLine, FirstIndexOf(currentLine, "="))[1]),
         StringTrim(SplitInTwo(currentLine, FirstIndexOf(currentLine, "="))[2]))

ParseLine(st, rawLine) ==
  LET currentLine == StringTrim(rawLine)
  IN IF currentLine = <<>> THEN Stop(st, "Continue")
     ELSE IF currentLine[1] = "#"
     THEN [st EXCEPT !.res = "Continue",
                     !.commentBuffer = Append(st.commentBuffer, currentLine)]
     ELSE IF currentLine[1] = "[" THEN ParseHeaderLine(st, currentLine)
     ELSE ParseKeyValueLine(st, currentLine)

(***************************************************************************)
(* State.                                                                  *)
(*   root    m_rootSection of the MiniPPFile                               *)
(*   parser  the locals of a running MiniPPFile::Parse and its result      *)
(*   disk    the file MiniPPFile::Write wrote last                         *)
(*   last    the last call made on a Section (GetValue, SetValue, ...)     *)
(*   budget  lines read from caller-supplied files so far, and their bound *)
(*   codec   a value token going through ParseValue / ToString             *)
(***************************************************************************)
VARIABLES root, parser, disk, last, budget, codec

vars == <<root, parser, disk, last, budget, codec>>
treeVars == <<root, parser, disk, last, budget>>

(***************************************************************************)
(* The value codec on its own: a token (or a programmatically built        *)
(* value) goes through ParseValue, ToString and ParseValue again.          *)
(***************************************************************************)
RECURSIVE SeqsUpTo(_, _)
SeqsUpTo(alphabet, n) ==
  IF n = 0 THEN {<<>>}
  ELSE LET shorter == SeqsUpTo(alphabet, n - 1)
       IN shorter \cup {Append(t, c) : t \in shorter, c \in alphabet}

DispatchAlphabet == {"\"", "\\", "e", "f", "]", "[", "1", ",", "b"}
IntAlphabet == {"0", "1", "f", "_", "h", "b", "-"}
StringAlphabet == {"a", "n", "\n", "\t", "\r", "\\", "\""}
BodyAlphabet == {"a", "n", "\\", "\""}
ArrayAlphabet == {"[", "]", ",", "\"", "\\", " ", "1"}

\* the literals the specification names
NamedTokens ==
  { <<"2", "5", "5">>, <<"0", "f", "f", "h">>,
    <<"1", "1", "1", "1", "1", "1", "1", "1", "b">>,
    <<"t", "r", "u", "e">>, <<"f", "a", "l", "s", "e">>,
    <<"1", "_", "0", "0", "0">>, <<"1", "0", "0", "0">>,
    <<"f", "_", "f", "h">>, <<"f", "f", "h">>,
    <<"1", "_", "0", "1", "b">>, <<"1", "0", "1", "b">>,
    <<"1", ".", "5", "f">>,
    <<"[", "1", ",", " ", "2", ",", " ", "3", "]">>,
    <<"[", "]">> }

\* element tokens of the two-element arrays [e1, e2]
ElementTokens ==
  { <<"1">>, <<"1", "h">>, <<"\"", "a", "\"">>, <<"t", "r", "u", "e">>,
    <<"1", "f">>, <<"[", "1", "]">>, <<"[", "]">>, <<"1", "e">> }

PairToken(e1, e2) == <<"[">> \o e1 \o <<",", " ">> \o e2 \o <<"]">>

Bracketed(interior) == <<"[">> \o interior \o <<"]">>

\* longer array tokens: a comma after an escaped quote inside a string,
\* blanks inside and outside strings, nested arrays, empty elements
LongArrayTokens ==
  { Bracketed(<<"\"", "\\", "\"", ",", "\"", ",", "\"", "a", "\"">>),
    Bracketed(<<"\"", "a", " ", "b", "\"", ",", " ", "\"", "c", "\"">>),
    Bracketed(<<"[", "1", ",", "1", "]", ",", "[", "1", "]">>),
    Bracketed(<<"[", "1", "]", ",", " ", "[", "\"", "a", "\"", "]">>),
    Bracketed(<<"[", "1", ",", "\"", "a", "\"", "]">>),
    Bracketed(<<"1", ",", ",", "1">>) }

QuotedBody(body) == <<"\"">> \o body \o <<"\"">>

Tokens ==
  ((SeqsUpTo(DispatchAlphabet, MaxTokLen) \cup SeqsUpTo(IntAlphabet, MaxIntLen))
     \ {<<>>})
    \cup {QuotedBody(b) : b \in SeqsUpTo(BodyAlphabet, MaxStrLen)}
    \cup {PairToken(e1, e2) : e1, e2 \in ElementTokens}
    \cup {Bracketed(b) : b \in SeqsUpTo(ArrayAlphabet, MaxArrLen)}
    \cup LongArrayTokens
    \cup NamedTokens

Pending == Failed("Pending")
NoText == [res |-> "Pending", text |-> <<>>]

CodecIdle ==
  [phase |-> "idle", tok |-> <<>>, parsed |-> Pending, text |-> NoText,
   reparsed |-> Pending]

\* what a build may do once ParseValue has read front() / back() of an
\* empty token: the byte read as the last character selects the class
\* parser, each of which rejects the empty token, or the read faults
UndefinedOutcomes ==
  {"BooleanValueInvalid", "FloatValueInvalid", "FormatError", "Crash"}

Outcomes(r) ==
  IF r.res = "UndefinedBehaviour" THEN {Failed(o) : o \in UndefinedOutcomes}
  ELSE {r}

\* Value::ParseValue(tok, &result)
CallParseValue ==
  /\ codec.phase = "token"
  /\ \E r \in Outcomes(ParseValue(codec.tok)) :
       codec' = [codec EXCEPT !.phase = "parsed", !.parsed = r]
  /\ UNCHANGED treeVars

\* value->ToString(text)
CallToString ==
  /\ codec.phase = "parsed"
  /\ codec.parsed.val # NoValue
  /\ codec' = [codec EXCEPT !.phase = "written",
                            !.text = ValueToString(codec.parsed.val)]
  /\ UNCHANGED treeVars

\* Value::ParseValue(text, &result) of the serialized value
CallReparse ==
  /\ codec.phase = "written"
  /\ IsResultOk(codec.text.res)
  /\ \E r \in Outcomes(ParseValue(codec.text.text)) :
       codec' = [codec EXCEPT !.phase = "reparsed", !.reparsed = r]
  /\ UNCHANGED treeVars

ParserIdle ==
  [pc |-> "idle", source |-> "none", input |-> <<>>, text |-> <<>>, additional |-> FALSE,
   currentSection |-> NullSection, commentBuffer |-> <<>>, result |-> "None",
   origin |-> "none"]

NoDisk == [exists |-> FALSE, res |-> "None", text |-> <<>>, tree |-> EmptySection,
           origin |-> "none"]

NoCall ==
  [op |-> "none", at |-> <<>>, key |-> <<>>, type |-> "none", value |-> NoValue,
   allowOverwrite |-> FALSE, res |-> "None", out |-> NoValue, before |-> EmptySection]

TreeInit ==
  /\ root = EmptySection
  /\ parser = ParserIdle
  /\ disk = NoDisk
  /\ last = NoCall
  /\ budget = [lines |-> 0, max |-> MaxLines]

\* programmatically built values: StringValue(const std::string&)
BuiltValues == {StringValue(s) : s \in SeqsUpTo(StringAlphabet, MaxStrLen)}

InitValue ==
  /\ TreeInit
  /\ \/ \E t \in Tokens : codec = [CodecIdle EXCEPT !.phase = "token", !.tok = t]
     \/ \E v \in BuiltValues :
          codec = [CodecIdle EXCEPT !.phase = "parsed", !.parsed = Parsed("Success", v)]

NextValue == CallParseValue \/ CallToString \/ CallReparse

SpecValue == InitValue /\ [][NextValue]_vars

(***************************************************************************)
(* The file, its tree and the calls of a host program: Parse reads a file  *)
(* line by line (a caller-supplied file, whose lines are drawn from Lines, *)
(* or the file Write wrote), Write serializes the tree, and between Parse  *)
(* calls the host calls GetValue on the root of the tree.                  *)
(***************************************************************************)
Lines ==
  { <<"[", "a", "]">>,
    <<"[", "a", ".", "b", ".", "c", "]">>,
    <<"[", "b", "]">>,
    <<"[", "a", ".", ".", "b", "]">>,
    <<"[", "b", ".", "?", "]">>,
    <<"x", " ", "=", " ", "1">>,
    <<"x", " ", "=", " ", "1", ".", "5", "f">>,
    <<"y", " ", "=", " ", "\"", "s", "\"">>,
    <<"x">>,
    <<"#", "c">>,
    <<" ">>,
    <<>> }

\* the dotted paths and classes the host asks GetValue for
GetPaths ==
  { <<"a", ".", "b", ".", "c", ".", "x">>, <<"a", ".", "b", ".", "x">>,
    <<"a", ".", "x">>, <<"x">> }
GetTypes == {"Int", "String"}

\* whether StringTrim reads outside the line or the header interior
LineReadsOutside(rawLine) ==
  LET currentLine == StringTrim(rawLine)
  IN \/ StringTrimReadsOutside(rawLine)
     \/ /\ Len(currentLine) >= 2
        /\ currentLine[1] = "["
        /\ currentLine[Len(currentLine)] = "]"
        /\ StringTrimReadsOutside(Substr(currentLine, 1, Len(currentLine) - 2))

\* what the loop body may do with a line: its result, and where the line
\* makes the code read outside a string, also a fault
Resolved(st, o) ==
  IF o.res = "UndefinedBehaviour" THEN {Stop(st, r) : r \in UndefinedOutcomes}
  ELSE {o}

LineOutcomes(st, rawLine) ==
  Resolved(st, ParseLine(st, rawLine))
    \cup (IF LineReadsOutside(rawLine) THEN {Stop(st, "Crash")} ELSE {})

ParserState ==
  [res |-> "Continue", root |-> root, currentSection |-> parser.currentSection,
   commentBuffer |-> parser.commentBuffer]

\* Mutant of Returned: the call goes on after it has set its result.
ReturnedRunning(result, origin) ==
  [parser EXCEPT !.result = result, !.origin = origin]

Returned(result, origin) ==
  [ParserIdle EXCEPT !.result = result, !.origin = origin,
                     !.source = parser.source, !.text = parser.text,
                     !.additional = parser.additional]

\* Mutant of ParseOpen: the root section is never cleared.
ParseOpenKeep ==
  /\ parser.pc = "idle"
  /\ \E additional \in BOOLEAN, source \in {"stream", "disk", "missing"} :
       /\ source = "disk" => disk.exists
       /\ parser' =
            IF source = "missing"
            THEN [ParserIdle EXCEPT !.result = "FileIOError", !.origin = "mixed",
                                    !.source = source, !.additional = additional]
            ELSE [pc |-> "parsing", source |-> source,
                  input |-> IF source = "disk" THEN disk.text ELSE <<>>,
                  text |-> <<>>,
                  additional |-> additional,
                  currentSection |-> NullSection, commentBuffer |-> <<>>,
                  result |-> "Running",
                  origin |-> IF ~additional \/ parser.origin = "none"
                             THEN "parse" ELSE parser.origin]
       /\ last' = [NoCall EXCEPT !.op = "Parse"]
  /\ UNCHANGED <<root, disk, budget, codec>>

\* Parse(path, additional), up to the line loop (minipp.hpp:851-871)
ParseOpen ==
  /\ parser.pc = "idle"
  /\ \E additional \in BOOLEAN, source \in {"stream", "disk", "missing"} :
       /\ source = "disk" => disk.exists
       /\ root' = IF additional THEN root ELSE EmptySection
       /\ parser' =
            IF source = "missing"
            THEN [ParserIdle EXCEPT !.result = "FileIOError", !.origin = "mixed",
                                    !.source = source, !.additional = additional]
            ELSE [pc |-> "parsing", source |-> source,
                  input |-> IF source = "disk" THEN disk.text ELSE <<>>,
                  text |-> <<>>,
                  additional |-> additional,
                  currentSection |-> NullSection, commentBuffer |-> <<>>,
                  result |-> "Running",
                  origin |-> IF ~additional \/ parser.origin = "none"
                             THEN "parse" ELSE parser.origin]
       /\ last' = [NoCall EXCEPT !.op = "Parse"]
  /\ UNCHANGED <<disk, budget, codec>>

\* one iteration of the line loop (minipp.hpp:872-987)
ParseReadLine ==
  /\ parser.pc = "parsing"
  /\ \E rawLine \in (IF parser.source = "disk"
                     THEN {parser.input[i] : i \in {1} \cap DOMAIN parser.input}
                     ELSE IF budget.lines < budget.max THEN Lines ELSE {}) :
       \E o \in LineOutcomes(ParserState, rawLine) :
         /\ root' = o.root
         /\ parser' =
              IF o.res = "Continue"
              THEN [parser EXCEPT !.input = IF parser.source = "disk" THEN Tail(@) ELSE @,
                                  !.text = Append(@, rawLine),
                                  !.currentSection = o.currentSection,
                                  !.commentBuffer = o.commentBuffer]
              ELSE IF o.res = "Crash"
              THEN [Returned("Crash", "mixed") EXCEPT !.pc = "crashed",
                                                      !.text = Append(@, rawLine)]
              ELSE [Returned(o.res, "mixed") EXCEPT !.text = Append(@, rawLine)]
  /\ budget' = IF parser.source = "disk" THEN budget
               ELSE [budget EXCEPT !.lines = @ + 1]
  /\ UNCHANGED <<disk, last, codec>>

\* std::getline fails at the end of the file: Parse returns Success
\* (minipp.hpp:872, 989)
ParseEnd ==
  /\ parser.pc = "parsing"
  /\ parser.source = "disk" => parser.input = <<>>
  /\ parser' = Returned("Success", parser.origin)
  /\ UNCHANGED <<root, disk, last, budget, codec>>

\* Write(path) (minipp.hpp:992-1000)
Write ==
  /\ parser.pc = "idle"
  /\ \E opened \in BOOLEAN :
       \E w \in (IF opened THEN WriteSection(root, <<>>)
                 ELSE {[res |-> "FileIOError", lines |-> <<>>]}) :
         /\ disk' = IF opened
                    THEN [exists |-> TRUE, res |-> w.res, text |-> w.lines,
                          tree |-> root, origin |-> parser.origin]
                    ELSE disk
         /\ last' = [NoCall EXCEPT !.op = "Write", !.res = w.res]
  /\ UNCHANGED <<root, parser, budget, codec>>

\* root.GetValue<ValueDataType>(key, &target) (minipp.hpp:217-245)
GetValue ==
  /\ parser.pc = "idle"
  /\ \E key \in GetPaths, type \in GetTypes :
       LET r == SectionGetValue(root, key, type)
       IN last' = [NoCall EXCEPT !.op = "GetValue", !.key = key, !.type = type,
                                 !.res = r.res, !.out = r.val, !.before = root]
  /\ UNCHANGED <<root, parser, disk, budget, codec>>

Init == TreeInit /\ codec = CodecIdle

Next == ParseOpen \/ ParseReadLine \/ ParseEnd \/ Write \/ GetValue

Spec == Init /\ [][Next]_vars

(***************************************************************************)
(* The parser alone: a host that only calls Parse on caller-supplied       *)
(* files, which lets the files be one line longer.                         *)
(***************************************************************************)
InitParse ==
  /\ root = EmptySection
  /\ parser = ParserIdle
  /\ disk = NoDisk
  /\ last = NoCall
  /\ budget = [lines |-> 0, max |-> MaxParseLines]
  /\ codec = CodecIdle

NextParse == ParseOpen \/ ParseReadLine \/ ParseEnd

SpecParse == InitParse /\ [][NextParse]_vars

(***************************************************************************)
(* The parser and the writer: a host that calls Parse and Write only.      *)
(***************************************************************************)
InitWrite ==
  /\ root = EmptySection
  /\ parser = ParserIdle
  /\ disk = NoDisk
  /\ last = NoCall
  /\ budget = [lines |-> 0, max |-> MaxWriteLines]
  /\ codec = CodecIdle

NextWrite == ParseOpen \/ ParseReadLine \/ ParseEnd \/ Write

SpecWrite == InitWrite /\ [][NextWrite]_vars

(***************************************************************************)
(* The Section interface used to build a tree programmatically: starting   *)
(* from the empty root of a new MiniPPFile the host calls SetSubSection on *)
(* the root and SetValue and GetValue on the sections it holds.            *)
(***************************************************************************)
\* the sections of the tree the host holds a pointer to: the root and its children
HeldSections == {<<>>} \cup {<<n>> : n \in DOMAIN root.subSections}

\* the names and values the host passes to SetValue and SetSubSection
SetNames == {<<"x">>, <<"a", ".", "x">>}
SetValues == {IntValue(7, "Decimal"), StringValue(<<"t">>)}
SubNames == {<<"a">>}

\* section->SetValue(name, value, allowOverwrite) (minipp.hpp:247-264)
SetValue ==
  /\ parser.pc = "idle"
  /\ \E at \in HeldSections, name \in SetNames, value \in SetValues,
        allowOverwrite \in BOOLEAN :
       LET r == SectionSetValue(SectionAt(root, at), name, value, allowOverwrite)
       IN /\ root' = PutSection(root, at, r.section)
          /\ last' = [NoCall EXCEPT !.op = "SetValue", !.at = at, !.key = name,
                                    !.value = value, !.allowOverwrite = allowOverwrite,
                                    !.res = r.res, !.before = root]
  /\ parser' = [parser EXCEPT !.origin = "mixed"]
  /\ UNCHANGED <<disk, budget, codec>>

\* root.SetSubSection(name, std::make_unique<Section>(), allowOverwrite)
\* (minipp.hpp:790-801)
SetSubSection ==
  /\ parser.pc = "idle"
  /\ \E name \in SubNames, allowOverwrite \in BOOLEAN :
       LET r == SectionSetSubSection(root, name, EmptySection, allowOverwrite)
       IN /\ root' = r.section
          /\ last' = [NoCall EXCEPT !.op = "SetSubSection", !.key = name,
                                    !.allowOverwrite = allowOverwrite,
                                    !.res = r.res, !.before = root]
  /\ parser' = [parser EXCEPT !.origin = "mixed"]
  /\ UNCHANGED <<disk, budget, codec>>

\* the default the host passes for each class: BaseType is int64_t for
\* IntValue and std::string for StringValue
DefaultOf(type) == IF type = "Int" THEN 1999 ELSE <<"d">>

\* a payload handed to or returned by the host
Payload(p) == [type |-> "payload", value |-> p]

\* root.GetValueOrDefault<ValueDataType>(key, defaultValue)
\* (minipp.hpp:266-276)
GetValueOrDefault ==
  /\ parser.pc = "idle"
  /\ \E key \in GetPaths, type \in GetTypes :
       last' = [NoCall EXCEPT
                  !.op = "GetValueOrDefault", !.key = key, !.type = type,
                  !.value = Payload(DefaultOf(type)),
                  !.out = Payload(SectionGetValueOrDefault(root, key, type,
                                                           DefaultOf(type))),
                  !.before = root]
  /\ UNCHANGED <<root, parser, disk, budget, codec>>

NextSection == SetValue \/ SetSubSection \/ GetValue \/ GetValueOrDefault

SpecSection == Init /\ [][NextSection]_vars

(***************************************************************************)
(* Claims about the value codec, checked under SpecValue.                  *)
(***************************************************************************)
Quote == "\""
Backslash == "\\"

\* the codec has parsed a token (not a programmatically built value)
TokenParsed == codec.phase \in {"parsed", "written", "reparsed"} /\ codec.tok # <<>>

\* the rule the specification selects from the first and last character
RuleOf(tok) ==
  IF tok[1] = Quote THEN "String"
  ELSE IF tok[Len(tok)] = "e" THEN "Bool"
  ELSE IF tok[Len(tok)] = "f" THEN "Float"
  ELSE IF tok[Len(tok)] = "]" THEN "Array"
  ELSE "Int"

\* the errors of each rule; an array's elements go through every rule
ErrorsOf(rule) ==
  CASE rule = "String" ->
         {"MissingQuote", "BadEscapeSequence", "UnknownEscapeSequence",
          "UnescapedStringValue"}
    [] rule = "Bool" -> {"BooleanValueInvalid"}
    [] rule = "Float" -> {"FloatValueInvalid"}
    [] rule = "Int" ->
         {"FormatError", "IntegerValueInvalid", "IntegerValueOutOfRange"}
    [] OTHER -> {e \in DOMAIN EResult : EResult[e] < 0} \cup UndefinedOutcomes

\* C4: ParseValue chooses the class from the first and last character of
\* the token in the order String, Bool, Float, Array, Int; a successful
\* parse yields a value of the chosen class and a failed one an error of
\* the chosen rule (MissingQuote for a quoted token without closing quote,
\* BooleanValueInvalid for a token ending in e that is not true or false).
C4_DispatchByFirstAndLast ==
  TokenParsed =>
    LET r == codec.parsed
        tok == codec.tok
        rule == RuleOf(tok)
    IN /\ r.val # NoValue => r.res = "Success" /\ r.val.type = rule
       /\ r.val = NoValue => r.res \in ErrorsOf(rule)
       /\ rule = "String" /\ tok[Len(tok)] # Quote => r.res = "MissingQuote"
       /\ rule = "Bool" /\ tok \notin {<<"t", "r", "u", "e">>, <<"f", "a", "l", "s", "e">>}
            => r.res = "BooleanValueInvalid"

\* a quoted token without closing quote that ends in e was rejected by the
\* String rule, and a token ending in e by the Bool rule
C4_Witness ==
  /\ codec.phase = "parsed"
  /\ \/ codec.tok = <<Quote, "e">> /\ codec.parsed.res = "MissingQuote"
     \/ codec.tok = <<"1", "e">> /\ codec.parsed.res = "BooleanValueInvalid"

\* C5: an integer literal with underscores parses to the same value and
\* radix style as the literal with the underscores deleted, in all three
\* radix styles.
\* (The literals taken are those whose underscores separate digits and
\* whose underscore-free form is a valid integer literal.)
SeparatesDigits(tok) ==
  \A i \in 1..Len(tok) :
    tok[i] = "_" =>
      /\ 1 < i /\ i < Len(tok)
      /\ tok[i - 1] \in DOMAIN DigitValue
      /\ tok[i + 1] \in DOMAIN DigitValue

C5_UnderscoresRemoved ==
  TokenParsed /\ RuleOf(codec.tok) = "Int" /\ SeparatesDigits(codec.tok) =>
    LET clean == RemoveAll(codec.tok, "_")
    IN ParseValue(clean).res = "Success" => codec.parsed = ParseValue(clean)

Lit255 == <<"2", "5", "5">>
Lit0ffh == <<"0", "f", "f", "h">>
LitBin255 == <<"1", "1", "1", "1", "1", "1", "1", "1", "b">>

IntegerCodecParses ==
  /\ codec.tok = Lit255 => codec.parsed = Parsed("Success", IntValue(255, "Decimal"))
  /\ codec.tok = Lit0ffh => codec.parsed = Parsed("Success", IntValue(255, "Hexadecimal"))
  /\ codec.tok = LitBin255 => codec.parsed = Parsed("Success", IntValue(255, "Binary"))

\* C6 as stated: 255, 0ffh and 11111111b parse to Int 255 in decimal,
\* hexadecimal and binary style, and each re-serializes to exactly the
\* literal it was parsed from.
C6_Original ==
  TokenParsed /\ codec.tok \in {Lit255, Lit0ffh, LitBin255} =>
    /\ IntegerCodecParses
    /\ codec.phase \in {"written", "reparsed"} =>
         codec.text = [res |-> "Success", text |-> codec.tok]

\* C6 as amended: 255, 0ffh and 11111111b parse to Int 255 in decimal,
\* hexadecimal and binary style; 255 and 11111111b re-serialize to exactly
\* their literal, and 0ffh re-serializes to ffh (the hexadecimal digits
\* without leading zeros).
C6_IntegerCodec ==
  TokenParsed /\ codec.tok \in {Lit255, Lit0ffh, LitBin255} =>
    /\ IntegerCodecParses
    /\ codec.phase \in {"written", "reparsed"} =>
         codec.text = [res |-> "Success",
                       text |-> IF codec.tok = Lit0ffh THEN <<"f", "f", "h">>
                                ELSE codec.tok]

C6_Witness ==
  /\ codec.phase = "written"
  /\ codec.tok = Lit0ffh
  /\ codec.text.text = <<"f", "f", "h">>

\* the two-character escape of a character, or the character itself
EscapeOf(c) ==
  CASE c = "\n" -> <<Backslash, "n">>
    [] c = "\t" -> <<Backslash, "t">>
    [] c = "\r" -> <<Backslash, "r">>
    [] c = Backslash -> <<Backslash, Backslash>>
    [] c = Quote -> <<Backslash, Quote>>
    [] OTHER -> <<c>>

RECURSIVE EscapeAll(_)
EscapeAll(s) == IF s = <<>> THEN <<>> ELSE EscapeOf(Head(s)) \o EscapeAll(Tail(s))

\* the codec started from a programmatically built String value
StringBuilt == codec.tok = <<>> /\ codec.parsed.val.type = "String"

\* C7: for every string s, StringValue::ToString yields the double-quoted
\* token in which newline, tab, carriage return, backslash and double
\* quote are replaced by their two-character escapes and every other
\* character is copied, and ParseValue of that token succeeds with a
\* String equal to s.
C7_StringRoundTrip ==
  /\ StringBuilt /\ codec.phase \in {"written", "reparsed"} =>
       codec.text = [res |-> "Success",
                     text |-> <<Quote>> \o EscapeAll(codec.parsed.val.value) \o <<Quote>>]
  /\ StringBuilt /\ codec.phase = "reparsed" =>
       codec.reparsed = Parsed("Success", StringValue(codec.parsed.val.value))

\* a string holding a carriage return, a backslash and a quote went
\* through ToString and ParseValue
C7_Witness ==
  /\ StringBuilt
  /\ codec.phase = "reparsed"
  /\ codec.parsed.val.value = <<"\r", Backslash, Quote>>
  /\ codec.reparsed.res = "Success"

\* position i (1-based) of a string body starts an escape: a backslash
\* that is not itself the second character of an escape
RECURSIVE StartsEscape(_, _)
StartsEscape(body, i) ==
  /\ i >= 1
  /\ body[i] = Backslash
  /\ ~StartsEscape(body, i - 1)

\* the offence at position i of a string body, "none" if there is none
OffenceAt(body, i) ==
  IF StartsEscape(body, i)
  THEN IF i = Len(body) THEN "BadEscapeSequence"
       ELSE IF body[i + 1] \in {Quote, "n", "t", "r", Backslash} THEN "none"
       ELSE "UnknownEscapeSequence"
  ELSE IF body[i] = Quote /\ ~StartsEscape(body, i - 1) THEN "UnescapedStringValue"
  ELSE "none"

ExpectedStringResult(body) ==
  LET bad == {i \in 1..Len(body) : OffenceAt(body, i) # "none"}
  IN IF bad = {} THEN "Success"
     ELSE OffenceAt(body, CHOOSE i \in bad : \A j \in bad : i <= j)

\* the token is a string body between two double quotes
IsQuoted(tok) == Len(tok) >= 2 /\ tok[1] = Quote /\ tok[Len(tok)] = Quote

\* C8: StringValue::Parse fails at the first offending position of the
\* body: UnknownEscapeSequence for a backslash followed by a character
\* other than double quote, n, t, r, backslash; BadEscapeSequence for a
\* backslash that is the last character; UnescapedStringValue for a double
\* quote that is not the second character of an escape; a body with none
\* of these succeeds.
C8_StringParseErrors ==
  TokenParsed /\ IsQuoted(codec.tok) =>
    codec.parsed.res = ExpectedStringResult(Substr(codec.tok, 1, Len(codec.tok) - 2))

\* a body with an unknown escape before an unescaped quote, a body ending
\* in a lone backslash after a complete escape
C8_Witness ==
  /\ codec.phase = "parsed"
  /\ \/ /\ codec.tok = QuotedBody(<<Backslash, "a", Quote>>)
        /\ codec.parsed.res = "UnknownEscapeSequence"
     \/ /\ codec.tok = QuotedBody(<<Backslash, Backslash, Backslash>>)
        /\ codec.parsed.res = "BadEscapeSequence"

Int1 == IntValue(1, "Decimal")

\* C9: a successfully parsed array holds elements of one class, that of
\* its first element; a token [e1, e2] whose elements both parse fails with
\* ArrayDataTypeInconsistency when their classes differ and yields both
\* values in source order when they agree; [1, 2, 3] yields the three Int
\* values in source order; [] yields an array without elements.
C9_ArrayHomogeneity ==
  TokenParsed =>
    LET r == codec.parsed
    IN /\ r.val # NoValue /\ r.val.type = "Array" =>
            \A k \in 1..Len(r.val.value) : r.val.value[k].type = r.val.value[1].type
       /\ \A e1, e2 \in ElementTokens :
            LET p1 == ParseValue(e1)
                p2 == ParseValue(e2)
            IN codec.tok = PairToken(e1, e2) /\ p1.val # NoValue /\ p2.val # NoValue =>
                 IF p1.val.type = p2.val.type
                 THEN r = Parsed("Success", ArrayValue(<<p1.val, p2.val>>))
                 ELSE r = Failed("ArrayDataTypeInconsistency")
       /\ codec.tok = <<"[", "1", ",", " ", "2", ",", " ", "3", "]">> =>
            r = Parsed("Success",
                       ArrayValue(<<Int1, IntValue(2, "Decimal"), IntValue(3, "Decimal")>>))
       /\ codec.tok = <<"[", "]">> => r = Parsed("Success", ArrayValue(<<>>))

\* [1, "a"] was rejected
C9_Witness ==
  /\ codec.phase = "parsed"
  /\ codec.tok = PairToken(<<"1">>, <<Quote, "a", Quote>>)
  /\ codec.parsed.res = "ArrayDataTypeInconsistency"

(***************************************************************************)
(* Claims about files and the tree, checked under Spec.                    *)
(***************************************************************************)
\* a Parse call has returned and no other Parse is running
ParseReturned == parser.pc = "idle" /\ parser.result \notin {"None", "Running"}

\* the last Parse read the file Write wrote, without `additional`, and the
\* tree written was the product of successful Parse calls only
Reparsed ==
  /\ ParseReturned
  /\ parser.source = "disk"
  /\ ~parser.additional
  /\ disk.origin = "parse"
  /\ disk.res = "Success"

\* C1: for every tree produced by a successful Parse, Write followed by a
\* non-additional Parse of the written text succeeds and yields an equal
\* tree: the same sections, keys, variants, payloads, radix styles and
\* comment lists.
C1_RoundTrip ==
  Reparsed => parser.result = "Success" /\ root = disk.tree

HeaderABC == <<"[", "a", ".", "b", ".", "c", "]">>
LineX1 == <<"x", " ", "=", " ", "1">>
PathABCX == <<"a", ".", "b", ".", "c", ".", "x">>
PathABX == <<"a", ".", "b", ".", "x">>

\* Parse has read the file [a.b.c] / x = 1 into an emptied tree, and
\* GetValue was then called on the root
AfterFileABC ==
  /\ ParseReturned
  /\ parser.result = "Success"
  /\ parser.source = "stream"
  /\ ~parser.additional
  /\ parser.text = <<HeaderABC, LineX1>>
  /\ last.op = "GetValue"

\* C2 as stated: after parsing [a.b.c] then x = 1, GetValue("a.b.c.x") on
\* the root succeeds with Int 1 and GetValue("a.b.x") on the root fails
\* with SectionNotPresent.
C2_Original ==
  AfterFileABC =>
    /\ last.key = PathABCX /\ last.type = "Int" =>
         last.res = "Success" /\ last.out = IntValue(1, "Decimal")
    /\ last.key = PathABX => last.res = "SectionNotPresent"

\* C2: after parsing [a.b.c] then x = 1, GetValue("a.b.c.x") on the root
\* succeeds with Int 1, and GetValue("a.b.x") on the root fails with
\* KeyNotPresent: the header created the section a.b, which holds no key x.
C2_PathAddressing ==
  AfterFileABC =>
    /\ last.key = PathABCX /\ last.type = "Int" =>
         last.res = "Success" /\ last.out = IntValue(1, "Decimal")
    /\ last.key = PathABX => last.res = "KeyNotPresent"

\* GetValue<IntValue>("a.b.c.x") was called after the file was parsed
C2_Witness ==
  /\ AfterFileABC
  /\ last.key = PathABCX
  /\ last.type = "Int"
  /\ last.res = "Success"

\* the positions of the dots of a path, and its segments between them
Dots(key) == {i \in 1..Len(key) : key[i] = "."}
SegmentCount(key) == Cardinality(Dots(key)) + 1
Boundary(key, j) ==
  IF j = 0 THEN 0
  ELSE IF j = SegmentCount(key) THEN Len(key) + 1
  ELSE CHOOSE p \in Dots(key) : Cardinality({q \in Dots(key) : q < p}) = j - 1
Segment(key, j) == SubSeq(key, Boundary(key, j - 1) + 1, Boundary(key, j) - 1)

\* the first n segments of key name nested subsections of section
RECURSIVE Resolves(_, _, _)
RECURSIVE Descend(_, _, _)
Descend(section, key, n) ==
  IF n = 0 THEN section
  ELSE Descend(section, key, n - 1).subSections[Segment(key, n)]
Resolves(section, key, n) ==
  \/ n = 0
  \/ /\ Resolves(section, key, n - 1)
     /\ Segment(key, n) \in DOMAIN Descend(section, key, n - 1).subSections

ExpectedGetValue(section, key, type) ==
  LET n == SegmentCount(key) - 1
      final == Segment(key, n + 1)
  IN IF ~Resolves(section, key, n) THEN Failed("SectionNotPresent")
     ELSE LET reached == Descend(section, key, n)
          IN IF final \notin DOMAIN reached.values THEN Failed("KeyNotPresent")
             ELSE IF reached.values[final].type # type THEN Failed("InvalidDataType")
             ELSE Parsed("Success", reached.values[final])

\* C3: GetValue descends one subsection per non-final segment of the path
\* and returns SectionNotPresent iff some non-final segment is not a child
\* of the section reached so far, otherwise KeyNotPresent iff the final
\* segment is not a key of the section reached, otherwise InvalidDataType
\* iff the stored value is of another variant than requested, otherwise
\* Success with the stored value; and it leaves the tree as it was.
C3_GetValue ==
  last.op = "GetValue" =>
    LET e == ExpectedGetValue(last.before, last.key, last.type)
    IN /\ last.res = e.res
       /\ last.out = e.val
       /\ root = last.before

\* GetValue<StringValue>("a.b.c.x") met an Int under x in the section a.b.c
C3_Witness ==
  /\ last.op = "GetValue"
  /\ last.key = PathABCX
  /\ last.res = "InvalidDataType"
  /\ root = last.before

(***************************************************************************)
(* Claims about the Section interface, checked under SpecSection.          *)
(***************************************************************************)
\* the section SetValue was called on, before and after the call
TargetBefore == SectionAt(last.before, last.at)
TargetAfter == SectionAt(root, last.at)

\* everything but the value stored under last.key is as before the call
OthersUnchanged ==
  /\ DOMAIN root.subSections = DOMAIN last.before.subSections
  /\ root.comments = last.before.comments
  /\ last.at # <<>> =>
       /\ root.values = last.before.values
       /\ \A n \in DOMAIN root.subSections :
            <<n>> # last.at => root.subSections[n] = last.before.subSections[n]
  /\ TargetAfter.subSections = TargetBefore.subSections
  /\ TargetAfter.comments = TargetBefore.comments
  /\ DOMAIN TargetAfter.values = DOMAIN TargetBefore.values \cup {last.key}
  /\ \A k \in DOMAIN TargetBefore.values :
       k # last.key => TargetAfter.values[k] = TargetBefore.values[k]

\* C10: SetValue(name, v, allowOverwrite) acts on the section it is called
\* on only: an absent name is inserted with Success; a present name without
\* allowOverwrite gives KeyAlreadyPresent and leaves the stored value, every
\* other key and every subsection unchanged; a present name with
\* allowOverwrite is replaced by v with ValueOverwritten, a success-class
\* code distinct from Success.
C10_SetValue ==
  last.op = "SetValue" =>
    LET present == last.key \in DOMAIN TargetBefore.values
    IN /\ ~present =>
            /\ last.res = "Success"
            /\ TargetAfter.values[last.key] = last.value
            /\ OthersUnchanged
       /\ present /\ ~last.allowOverwrite =>
            /\ last.res = "KeyAlreadyPresent"
            /\ root = last.before
       /\ present /\ last.allowOverwrite =>
            /\ last.res = "ValueOverwritten"
            /\ IsResultOk(last.res) /\ last.res # "Success"
            /\ TargetAfter.values[last.key] = last.value
            /\ OthersUnchanged

\* a stored value of another variant was replaced in a subsection
C10_Witness ==
  /\ last.op = "SetValue"
  /\ last.at = <<<<"a">>>>
  /\ last.allowOverwrite
  /\ last.key \in DOMAIN TargetBefore.values
  /\ TargetBefore.values[last.key].type # last.value.type
  /\ last.res = "ValueOverwritten"

\* C11: SetSubSection(name, section, allowOverwrite) on an existing name
\* without allowOverwrite fails with SectionAlreadyPresent and leaves the
\* child mapping unchanged; on an existing name with allowOverwrite it
\* replaces the child and reports ValueOverwritten; on an absent name it
\* inserts the child and returns Success.
C11_SetSubSection ==
  last.op = "SetSubSection" =>
    LET present == last.key \in DOMAIN last.before.subSections
    IN /\ present /\ ~last.allowOverwrite =>
            /\ last.res = "SectionAlreadyPresent"
            /\ root.subSections = last.before.subSections
       /\ present /\ last.allowOverwrite =>
            /\ last.res = "ValueOverwritten"
            /\ root.subSections[last.key] = EmptySection
       /\ ~present =>
            /\ last.res = "Success"
            /\ root.subSections[last.key] = EmptySection

\* the names of the keys and of the sections of a tree, at every depth
RECURSIVE NamesIn(_)
NamesIn(section) ==
  DOMAIN section.values \cup DOMAIN section.subSections
    \cup UNION {NamesIn(section.subSections[n]) : n \in DOMAIN section.subSections}

NameCharacters == LowerLetters \cup UpperLetters \cup DecDigits \cup {"_"}

\* C12: whenever no Parse is running, every key name and every section name
\* of the tree is non-empty and made of characters in [A-Za-z0-9_] only
\* (sibling keys and sibling subsections are the domains of two maps, so no
\* two siblings of one kind share a name).
C12_NamesValid ==
  parser.pc = "idle" =>
    \A name \in NamesIn(root) :
      name # <<>> /\ \A i \in 1..Len(name) : name[i] \in NameCharacters

(***************************************************************************)
(* Claims about header lines, checked under SpecParse.                     *)
(***************************************************************************)
\* a step of Parse that read a line: the line read
LineRead == Len(parser'.text) = Len(parser.text) + 1
TheLine == parser'.text[Len(parser'.text)]
\* a header line whose dotted path does not end with a dot
IsHeader(line) ==
  /\ Len(line) >= 3
  /\ line[1] = "["
  /\ line[Len(line)] = "]"
  /\ line[Len(line) - 1] # "."
HeaderPath(line) == SubSeq(line, 2, Len(line) - 1)
\* a header whose segments are made of name characters
IsNamedHeader(line) ==
  /\ IsHeader(line)
  /\ \A i \in 2..(Len(line) - 1) : line[i] \in NameCharacters \cup {"."}
PathOf(key) == [j \in 1..SegmentCount(key) |-> Segment(key, j)]

\* the section reached by the first k segments existed before the step and
\* the step changed nothing of it but, possibly, its child segment k + 1
Untouched(key, k) ==
  LET old == Descend(root, key, k)
      new == Descend(root', key, k)
  IN /\ new.values = old.values
     /\ new.comments = old.comments
     /\ \A c \in DOMAIN old.subSections :
          /\ c \in DOMAIN new.subSections
          /\ c # Segment(key, k + 1) => new.subSections[c] = old.subSections[c]

\* the section reached by the first k segments was created by the step
Created(key, k) ==
  LET new == Descend(root', key, k)
  IN /\ new.values = EmptyMap
     /\ IF k < SegmentCount(key)
        THEN DOMAIN new.subSections = {Segment(key, k + 1)} /\ new.comments = <<>>
        ELSE new.subSections = EmptyMap

HeaderStep(key) ==
  LET n == SegmentCount(key)
  IN IF Resolves(root, key, n)
     THEN /\ parser'.pc = "idle"
          /\ parser'.result = "SectionAlreadyPresent"
          /\ root' = root
     ELSE /\ parser'.pc = "parsing"
          /\ Resolves(root', key, n)
          /\ \A k \in 0..(n - 1) :
               IF Resolves(root, key, k) THEN Untouched(key, k) ELSE Created(key, k)
          /\ Created(key, n)
          /\ Descend(root', key, n).comments = parser.commentBuffer
          /\ parser'.currentSection = PointerTo(PathOf(key))

\* C13: a header [s1.s2...sn] of names read by Parse creates every segment that does
\* not exist yet along the path from the root; an existing segment before
\* the last is descended into and keeps its values, comments and other
\* children; if the last segment exists, Parse returns SectionAlreadyPresent
\* and the tree is as before; otherwise the section at the full path is the
\* current section.
C13_HeaderHandling ==
  [][LineRead /\ IsNamedHeader(TheLine) => HeaderStep(HeaderPath(TheLine))]_vars

\* [a.b.c] was accepted after [a]: a existed, b and c were created
C13_Witness ==
  /\ parser.pc = "parsing"
  /\ parser.text = <<<<"[", "a", "]">>, HeaderABC>>
  /\ parser.currentSection = PointerTo(<<<<"a">>, <<"b">>, <<"c">>>>)

(***************************************************************************)
(* Claims about key/value lines, checked under SpecParse.                  *)
(***************************************************************************)
\* a line that is neither blank nor a comment nor a header
IsOtherLine(line) ==
  /\ \E i \in 1..Len(line) : line[i] # " "
  /\ LET first == line[CHOOSE i \in 1..Len(line) :
                        line[i] # " " /\ \A j \in 1..(i - 1) : line[j] = " "]
     IN first \notin {"#", "["}

HasEquals(line) == \E i \in 1..Len(line) : line[i] = "="

\* the key of a key/value line: what stands before the first '=', blanks apart
KeyText(line) ==
  LET eq == CHOOSE i \in 1..Len(line) :
              line[i] = "=" /\ \A j \in 1..(i - 1) : line[j] # "="
  IN SelectSeq(SubSeq(line, 1, eq - 1), LAMBDA c : c # " ")

\* the section key/value lines go to, before and after a step
CurrentBefore == SectionAt(root, parser.currentSection[1])
CurrentAfter == SectionAt(root', parser.currentSection[1])

DuplicateKeyLine ==
  /\ LineRead
  /\ IsOtherLine(TheLine)
  /\ HasEquals(TheLine)
  /\ parser.currentSection # NullSection
  /\ KeyText(TheLine) \in DOMAIN CurrentBefore.values

LineComment == <<"#", "c">>
LineX15f == <<"x", " ", "=", " ", "1", ".", "5", "f">>

NoCurrentSection == parser.currentSection = NullSection
InSection == parser.currentSection # NullSection

\* a step that enters Parse and reaches the line loop
CallStarts == parser.pc = "idle" /\ parser'.pc = "parsing"

\* a step of the line loop after which the call goes on
CallGoesOn == parser.pc = "parsing" /\ parser'.pc = "parsing"

\* C15: every Parse call starts without a current section; while there is
\* none, a line that is not blank, not a comment and not a header ends the
\* call with KeyValuePairNotInSection, with or without '=' in the line and
\* in additional mode as well; once a section is current the call keeps a
\* current section until it returns and never returns
\* KeyValuePairNotInSection.
C15_ParserStates ==
  [][/\ CallStarts => parser'.currentSection = NullSection
     /\ (LineRead /\ NoCurrentSection /\ IsOtherLine(TheLine))
          => (parser'.pc = "idle" /\ parser'.result = "KeyValuePairNotInSection"
              /\ root' = root)
     /\ (InSection /\ CallGoesOn) => parser'.currentSection # NullSection
     /\ (InSection /\ parser.pc = "parsing")
          => parser'.result # "KeyValuePairNotInSection"]_vars

LineNoEquals == <<"x">>

\* an additional Parse into a tree that holds section a stopped at a line
\* without '=' before any header
C15_Witness ==
  /\ parser.pc = "idle"
  /\ parser.additional
  /\ parser.result = "KeyValuePairNotInSection"
  /\ parser.text = <<LineComment, LineNoEquals>>
  /\ <<"a">> \in DOMAIN root.subSections

(***************************************************************************)
(* Claims about the two modes of Parse, checked under SpecParse.           *)
(***************************************************************************)
\* a step that enters Parse
CallOpens == parser.pc = "idle" /\ last'.op = "Parse" /\ parser' # parser

\* the tree a sequence of lines builds in an empty root, up to the line
\* that ends the call
RECURSIVE LinesInto(_, _)
LinesInto(st, text) ==
  IF text = <<>> THEN st.root
  ELSE IF ParseLine(st, Head(text)).res = "Continue"
  THEN LinesInto(ParseLine(st, Head(text)), Tail(text))
  ELSE ParseLine(st, Head(text)).root

FreshParser ==
  [res |-> "Continue", root |-> EmptySection, currentSection |-> NullSection,
   commentBuffer |-> <<>>]

\* every section of old is in new under the same path, and every key of it
\* with the same value
RECURSIVE Preserved(_, _)
Preserved(old, new) ==
  /\ \A k \in DOMAIN old.values :
       k \in DOMAIN new.values /\ new.values[k] = old.values[k]
  /\ \A c \in DOMAIN old.subSections :
       c \in DOMAIN new.subSections
         /\ Preserved(old.subSections[c], new.subSections[c])

\* C16: Parse without `additional` empties the root when it is entered, and
\* during and after the call the tree holds what the lines read by this
\* call put into an empty root and nothing else; every step of a Parse with
\* `additional`, its entry and the step that ends it included, keeps each
\* section and each key/value of the tree with the same value.
C16_ParseModes ==
  [][/\ (CallOpens /\ ~parser'.additional) => root' = EmptySection
     /\ (parser'.source # "none" /\ ~parser'.additional)
          => root' = LinesInto(FreshParser, parser'.text)
     /\ ((CallOpens \/ parser.pc = "parsing") /\ parser'.additional)
          => Preserved(root, root')]_vars

LineHeaderB == <<"[", "b", "]">>

\* an additional Parse of the file [b] / x = 1 has succeeded on a tree that
\* held section a with x = 1
C16_Witness ==
  /\ parser.pc = "idle"
  /\ parser.additional
  /\ parser.result = "Success"
  /\ parser.text = <<LineHeaderB, LineX15f>>
  /\ DOMAIN root.subSections = {<<"a">>, <<"b">>}
  /\ DOMAIN root.subSections[<<"a">>].values = {<<"x">>}
  /\ root.subSections[<<"a">>].values[<<"x">>] = IntValue(1, "Decimal")

(***************************************************************************)
(* Claims about the written file, checked under SpecWrite.                 *)
(***************************************************************************)
\* the dotted path of child c of the section with dotted path p
FullName(p, c) == IF p = <<>> THEN c ELSE p \o <<".">> \o c

HeaderOf(path) == <<"[">> \o path \o <<"]">>

\* the key/value pairs of section S in the given order of its keys, each
\* after its comment lines
RECURSIVE PairLines(_, _, _)
PairLines(S, order, k) ==
  IF k > Len(order) THEN <<>>
  ELSE S.values[order[k]].comments
         \o << order[k] \o <<" ", "=", " ">> \o ValueToString(S.values[order[k]]).text >>
         \o PairLines(S, order, k + 1)

BlankLineAfter(S) == IF DOMAIN S.values # {} THEN << <<>> >> ELSE <<>>

\* the texts the layout allows for section S under prefix p: one for each
\* order of the pairs and of the children
RECURSIVE Layouts(_, _)
RECURSIVE ChildLayouts(_, _, _, _)
ChildLayouts(S, p, order, k) ==
  IF k > Len(order) THEN {<<>>}
  ELSE { S.subSections[order[k]].comments
           \o <<HeaderOf(FullName(p, order[k]))>> \o own \o rest :
         own \in Layouts(S.subSections[order[k]], FullName(p, order[k])),
         rest \in ChildLayouts(S, p, order, k + 1) }

Layouts(S, p) ==
  UNION { { PairLines(S, pairs, 1) \o BlankLineAfter(S) \o below :
            below \in ChildLayouts(S, p, children, 1) } :
          pairs \in Orders(DOMAIN S.values),
          children \in Orders(DOMAIN S.subSections) }

\* the dotted paths of the sections below S, S having the dotted path p
RECURSIVE PathsBelow(_, _)
PathsBelow(S, p) ==
  UNION { {FullName(p, c)} \cup PathsBelow(S.subSections[c], FullName(p, c)) :
          c \in DOMAIN S.subSections }

HeaderIndexes(text) ==
  {i \in 1..Len(text) : text[i] # <<>> /\ text[i][1] = "["}

\* path q lies strictly below path p
IsBelow(q, p) ==
  Len(q) > Len(p) /\ SubSeq(q, 1, Len(p) + 1) = p \o <<".">>

Written == disk.exists /\ disk.res = "Success"

\* C17: the text of a successful Write, looked at when Write returns (the
\* file changes in no other step), is a layout of the tree written:
\* per section its key/value pairs first, each after its comments as
\* `key = value`, then one blank line iff there is a pair, then per child
\* its comments, its header with the full dotted path and its own layout.
\* The headers of the text are those of the sections of the tree, each with
\* its full path and once, and the header of a section stands before the
\* headers of the sections below it.
C17_WriterLayout ==
  (Written /\ last.op = "Write") =>
    /\ disk.text \in Layouts(disk.tree, <<>>)
    /\ {disk.text[i] : i \in HeaderIndexes(disk.text)}
         = {HeaderOf(q) : q \in PathsBelow(disk.tree, <<>>)}
    /\ Cardinality(HeaderIndexes(disk.text))
         = Cardinality(PathsBelow(disk.tree, <<>>))
    /\ \A i, j \in HeaderIndexes(disk.text) :
         IsBelow(HeaderPath(disk.text[j]), HeaderPath(disk.text[i])) => i < j

\* the tree of the file [a] / x = 1 / [a.b.c] has been written: the pair of
\* a and a blank line stand between the header of a and that of a.b
C17_Witness ==
  /\ Written
  /\ disk.text = << <<"[", "a", "]">>, LineX1, <<>>,
                    <<"[", "a", ".", "b", "]">>, HeaderABC >>

(***************************************************************************)
(* Claims about GetValueOrDefault, checked under SpecSection.              *)
(***************************************************************************)
\* what GetValue would answer for the arguments of the last call
WouldGet == SectionGetValue(last.before, last.key, last.type)

\* C18: GetValueOrDefault returns the payload of the stored value when
\* GetValue with the same path and class returns Success, and the default
\* when it returns SectionNotPresent, KeyNotPresent or InvalidDataType; the
\* tree is the one before the call and no result code is reported.
C18_GetValueOrDefault ==
  last.op = "GetValueOrDefault" =>
    /\ WouldGet.res = "Success" => last.out = Payload(WouldGet.val.value)
    /\ WouldGet.res # "Success" =>
         /\ last.out = last.value
         /\ WouldGet.res
              \in {"SectionNotPresent", "KeyNotPresent", "InvalidDataType"}
    /\ root = last.before
    /\ last.res = "None"

PathAX == <<"a", ".", "x">>

\* the payload of the stored Int 7 is returned for a.x, not the default
C18_Witness ==
  /\ last.op = "GetValueOrDefault"
  /\ last.key = PathAX
  /\ last.type = "Int"
  /\ last.value = Payload(1999)
  /\ last.out = Payload(7)

(***************************************************************************)
(* Claims about integer values, checked under SpecValue.                   *)
(***************************************************************************)
\* an accepted Int has been serialized and the text parsed again
IntReparsed ==
  /\ codec.phase = "reparsed"
  /\ TokenParsed
  /\ codec.parsed.res = "Success"
  /\ codec.parsed.val.type = "Int"

\* C19: for every Int that Parse accepts, in decimal, hexadecimal or binary
\* style and also from a literal with a leading minus sign, ToString
\* followed by Parse succeeds with the same 64-bit value and the same
\* style.
C19_IntRoundTrip ==
  IntReparsed =>
    /\ codec.reparsed.res = "Success"
    /\ codec.reparsed.val.type = "Int"
    /\ codec.reparsed.val.value = codec.parsed.val.value
    /\ codec.reparsed.val.style = codec.parsed.val.style

\* the low `width` bits of a natural number, most significant first
BitsOf(n, width) ==
  [i \in 1..width |-> IF width - i >= 30 THEN 0 ELSE (n \div 2^(width - i)) % 2]

\* the 64-bit two's complement pattern of a value
Complement(bits) == [i \in 1..Len(bits) |-> 1 - bits[i]]

Pattern64(v) ==
  IF v >= 0 THEN BitsOf(v, 64) ELSE Complement(BitsOf((0 - v) - 1, 64))

StripLeadingZeros(bits) ==
  LET ones == {i \in 1..Len(bits) : bits[i] = 1}
  IN IF ones = {} THEN <<>>
     ELSE SubSeq(bits, CHOOSE i \in ones : \A j \in ones : i <= j, Len(bits))

BitText(bits) == [i \in 1..Len(bits) |-> IF bits[i] = 1 THEN "1" ELSE "0"]

\* a value of binary style has been serialized
BinaryWritten ==
  /\ codec.phase \in {"written", "reparsed"}
  /\ codec.parsed.val.type = "Int"
  /\ codec.parsed.val.style = "Binary"

\* C20: ToString of a value of binary style succeeds with the 64-bit
\* pattern of the value without its leading zeros, followed by b, when the
\* value is not zero, and with 0b when it is zero; the text is 0b for no
\* other value.
C20_BinaryToString ==
  BinaryWritten =>
    /\ codec.text.res = "Success"
    /\ codec.parsed.val.value # 0 =>
         codec.text.text
           = BitText(StripLeadingZeros(Pattern64(codec.parsed.val.value))) \o <<"b">>
    /\ codec.text.text = <<"0", "b">> <=> codec.parsed.val.value = 0

\* zero, written from the literal 00b
C20_Witness ==
  /\ BinaryWritten
  /\ codec.tok = <<"0", "0", "b">>
  /\ codec.parsed.val.value = 0
  /\ codec.text.text = <<"0", "b">>

(***************************************************************************)
(* Claims about the array splitter, checked under SpecValue.               *)
(***************************************************************************)
\* whether a quoted string is open just before character i, and whether
\* character i is escaped by a backslash of that string
RECURSIVE OpenBefore(_, _)
RECURSIVE IsEscaped(_, _)
OpenBefore(tok, i) ==
  IF i = 1 THEN FALSE
  ELSE IF tok[i - 1] = Quote /\ ~IsEscaped(tok, i - 1)
  THEN ~OpenBefore(tok, i - 1)
  ELSE OpenBefore(tok, i - 1)

IsEscaped(tok, i) ==
  /\ i > 1
  /\ tok[i - 1] = Backslash
  /\ OpenBefore(tok, i - 1)
  /\ ~IsEscaped(tok, i - 1)

\* character i stands outside every quoted string (the quotes of a string
\* belong to it)
OutsideString(tok, i) == ~OpenBefore(tok, i) /\ tok[i] # Quote

\* the bracket depth after character i, counting brackets outside strings
DepthAfter(tok, i) ==
  Cardinality({j \in 1..i : OutsideString(tok, j) /\ tok[j] = "["})
    - Cardinality({j \in 1..i : OutsideString(tok, j) /\ tok[j] = "]"})

BracketsUnbalanced(tok) ==
  \/ \E i \in 1..Len(tok) : DepthAfter(tok, i) < 0
  \/ DepthAfter(tok, Len(tok)) > 0

\* the commas that end an element
SplitPoints(tok) ==
  {i \in 1..Len(tok) :
     OutsideString(tok, i) /\ tok[i] = "," /\ DepthAfter(tok, i) = 1}

\* the characters that belong to no element: blanks outside strings and
\* the two brackets that enclose the array
IsDropped(tok, i) ==
  /\ OutsideString(tok, i)
  /\ \/ tok[i] \in {" ", "\t"}
     \/ tok[i] = "[" /\ DepthAfter(tok, i) = 1
     \/ tok[i] = "]" /\ DepthAfter(tok, i) = 0

\* the characters kept between the positions lo and hi
RECURSIVE KeptBetween(_, _, _)
KeptBetween(tok, lo, hi) ==
  IF lo + 1 >= hi THEN <<>>
  ELSE (IF IsDropped(tok, lo + 1) THEN <<>> ELSE <<tok[lo + 1]>>)
         \o KeptBetween(tok, lo + 1, hi)

\* the k-th split point, 0 before the first and Len + 1 after the last
SplitPoint(tok, k) ==
  IF k = 0 THEN 0
  ELSE IF k > Cardinality(SplitPoints(tok)) THEN Len(tok) + 1
  ELSE CHOOSE i \in SplitPoints(tok) :
         Cardinality({j \in SplitPoints(tok) : j < i}) = k - 1

\* the elements of a token with balanced brackets; nothing after the last
\* comma is no element
ExpectedElements(tok) ==
  LET n == Cardinality(SplitPoints(tok))
      pieces == [k \in 1..(n + 1) |->
                   KeptBetween(tok, SplitPoint(tok, k - 1), SplitPoint(tok, k))]
  IN IF pieces[n + 1] = <<>> THEN SubSeq(pieces, 1, n) ELSE pieces

IsArrayToken(tok) == Len(tok) >= 2 /\ tok[1] = "[" /\ tok[Len(tok)] = "]"

ExpectedArray(tok) ==
  IF BracketsUnbalanced(tok) THEN Failed("ArrayBracketsInbalanced")
  ELSE ArrayElementLoop(ExpectedElements(tok), 1, FALSE, "none", <<>>)

\* C21: the elements of an array token are the pieces between the commas
\* that stand at bracket depth 1 outside quoted strings, without the blanks
\* outside strings and with strings and nested [...] text kept whole; a
\* token whose brackets outside strings do not balance fails with
\* ArrayBracketsInbalanced.
C21_ArraySplitting ==
  (TokenParsed /\ IsArrayToken(codec.tok)) =>
    codec.parsed \in Outcomes(ExpectedArray(codec.tok))

(***************************************************************************)
(* Claims about the first error of a Parse call, checked under SpecWrite.  *)
(***************************************************************************)
RECURSIVE StripBlanks(_)
StripBlanks(text) ==
  IF text = <<>> THEN text
  ELSE IF text[1] = " " THEN StripBlanks(Tail(text))
  ELSE IF text[Len(text)] = " " THEN StripBlanks(SubSeq(text, 1, Len(text) - 1))
  ELSE text

\* the value of a key/value line: what stands after the first '='
ValueText(line) ==
  LET eq == CHOOSE i \in 1..Len(line) :
              line[i] = "=" /\ \A j \in 1..(i - 1) : line[j] # "="
  IN StripBlanks(SubSeq(line, eq + 1, Len(line)))

IsName(text) == \A i \in 1..Len(text) : text[i] \in NameCharacters

\* a header line whose path has no empty segment
IsPlainHeader(line) ==
  /\ IsHeader(line)
  /\ \A j \in 1..SegmentCount(HeaderPath(line)) : Segment(HeaderPath(line), j) # <<>>

\* the first segment of a header path that is no name, 0 if there is none
FirstBadSegment(key) ==
  IF \A j \in 1..SegmentCount(key) : IsName(Segment(key, j)) THEN 0
  ELSE CHOOSE j \in 1..SegmentCount(key) :
         /\ ~IsName(Segment(key, j))
         /\ \A k \in 1..(j - 1) : IsName(Segment(key, k))

\* the error of a header line in the state before it is read
HeaderError(key) ==
  IF FirstBadSegment(key) # 0 THEN "InvalidName"
  ELSE IF Resolves(root, key, SegmentCount(key)) THEN "SectionAlreadyPresent"
  ELSE "none"

\* the error of a line that is neither blank, comment nor header, in the
\* state before it is read
OtherLineError(line) ==
  IF parser.currentSection = NullSection THEN "KeyValuePairNotInSection"
  ELSE IF ~HasEquals(line) THEN "ExpectedKeyValuePair"
  ELSE IF KeyText(line) = <<>> THEN "KeyEmpty"
  ELSE IF ~IsName(KeyText(line)) THEN "InvalidName"
  ELSE IF ValueText(line) = <<>> THEN "ValueEmpty"
  ELSE IF ParseValue(ValueText(line)).val = NoValue
  THEN ParseValue(ValueText(line)).res
  ELSE IF KeyText(line) \in DOMAIN CurrentBefore.values THEN "KeyAlreadyPresent"
  ELSE "none"

\* the lines whose error the rules above give: blank lines, comments,
\* headers without empty segments and lines that start with neither
RuledLine(line) ==
  \/ line = <<>>
  \/ line[1] = "#"
  \/ IsPlainHeader(line)
  \/ IsOtherLine(line)

LineError(line) ==
  IF line = <<>> \/ line[1] = "#" THEN "none"
  ELSE IF IsPlainHeader(line) THEN HeaderError(HeaderPath(line))
  ELSE OtherLineError(line)

\* the segments a failing header line created before its error are there
SegmentsBeforeError(line) ==
  (IsPlainHeader(line) /\ FirstBadSegment(HeaderPath(line)) > 1)
    => Resolves(root', HeaderPath(line), FirstBadSegment(HeaderPath(line)) - 1)

\* C22: Parse reads the lines in file order, only while the call runs; a
\* line without error lets the call go on, and the first line with an
\* error ends the call with that line's error; the step that ends the call
\* keeps every section and value the tree held, adds the segments a failing
\* header created before its error, and after it the tree changes only when
\* Parse is entered again, whatever lines were left in the file.
C22_FirstErrorAbort ==
  [][/\ LineRead =>
          /\ parser.pc = "parsing"
          /\ SubSeq(parser'.text, 1, Len(parser.text)) = parser.text
          /\ parser.source = "disk" => TheLine = Head(parser.input)
     /\ (LineRead /\ RuledLine(TheLine)) =>
          IF LineError(TheLine) = "none"
          THEN parser'.pc = "parsing" /\ parser'.result = "Running"
          ELSE /\ parser'.pc = "idle"
               /\ parser'.result = LineError(TheLine)
               /\ Preserved(root, root')
               /\ SegmentsBeforeError(TheLine)
     /\ (parser.pc = "idle" /\ ~CallOpens) => root' = root]_vars

LineHeaderA == <<"[", "a", "]">>

\* an additional Parse of the written file [a] / x = 1 stopped at its first
\* line, with the rest of the file unread
C22_Witness ==
  /\ parser.pc = "idle"
  /\ parser.source = "disk"
  /\ parser.result = "SectionAlreadyPresent"
  /\ parser.text = <<LineHeaderA>>
  /\ disk.text = <<LineHeaderA, LineX1, <<>> >>
  /\ DOMAIN root.subSections[<<"a">>].values = {<<"x">>}

(***************************************************************************)
(* Claims about comment lines, checked under SpecParse.                    *)
(***************************************************************************)
\* the number of comment lines attached to the nodes of a tree
RECURSIVE SumOver(_, _, _)
SumOver(f, S, n) ==
  IF S = {} THEN n
  ELSE LET x == CHOOSE y \in S : TRUE
       IN SumOver(f, S \ {x}, n + f[x])

RECURSIVE AttachedComments(_)
AttachedComments(section) ==
  Len(section.comments)
    + SumOver([k \in DOMAIN section.values |-> Len(section.values[k].comments)],
              DOMAIN section.values, 0)
    + SumOver([c \in DOMAIN section.subSections |->
                 AttachedComments(section.subSections[c])],
              DOMAIN section.subSections, 0)

IsCommentLine(line) == line # <<>> /\ line[1] = "#"

\* a step that read a line of the given kind after which the call goes on
Accepted == LineRead /\ parser'.pc = "parsing"
AcceptedHeader == Accepted /\ TheLine # <<>> /\ TheLine[1] = "["
AcceptedKeyValue == Accepted /\ IsOtherLine(TheLine)

\* C23: a comment line is appended to the pending buffer and touches no
\* node; an accepted header gives the buffer to the section made current
\* and an accepted key/value line gives it to the new value, as their
\* whole comment lists, and the buffer is empty afterwards; no other node
\* gains or loses a comment; a blank line leaves the buffer alone; a call
\* starts with an empty buffer, and what it holds when the call ends is
\* attached to nothing.
C23_CommentAttachment ==
  [][/\ CallStarts => parser'.commentBuffer = <<>>
     /\ (LineRead /\ IsCommentLine(TheLine)) =>
          /\ parser'.commentBuffer = Append(parser.commentBuffer, TheLine)
          /\ root' = root
     /\ (Accepted /\ TheLine = <<>>) =>
          parser'.commentBuffer = parser.commentBuffer /\ root' = root
     /\ AcceptedHeader =>
          /\ SectionAt(root', parser'.currentSection[1]).comments
               = parser.commentBuffer
          /\ parser'.commentBuffer = <<>>
          /\ AttachedComments(root')
               = AttachedComments(root) + Len(parser.commentBuffer)
     /\ AcceptedKeyValue =>
          /\ CurrentAfter.values[KeyText(TheLine)].comments = parser.commentBuffer
          /\ parser'.commentBuffer = <<>>
          /\ AttachedComments(root')
               = AttachedComments(root) + Len(parser.commentBuffer)
     /\ (parser.pc = "parsing" /\ parser'.pc = "idle") =>
          AttachedComments(root') = AttachedComments(root)]_vars

\* #c / [a] / #c / x = 1: one comment on section a, one on its value x
C23_Witness ==
  /\ parser.pc = "parsing"
  /\ parser.text = <<LineComment, LineHeaderA, LineComment, LineX1>>
  /\ parser.commentBuffer = <<>>
  /\ root.subSections[<<"a">>].comments = <<LineComment>>
  /\ root.subSections[<<"a">>].values[<<"x">>].comments = <<LineComment>>

(***************************************************************************)
(* Claims about the tokens Value::ParseValue is called with, checked       *)
(* under SpecValue.                                                        *)
(***************************************************************************)
\* whether ParseValue hands the token to ArrayValue::Parse and the scan of
\* the token gets as far as the element loop
ReachesElementLoop(value) ==
  /\ value # <<>>
  /\ value[1] = "["
  /\ value[Len(value)] = "]"
  /\ ArrayScan(value, 0, 0, FALSE, <<>>, <<>>).res = "Success"

\* the elements the loop hands to ParseValue: all up to the first one that
\* ends the loop
RECURSIVE LoopStopsAt(_, _)
LoopStopsAt(elements, k) ==
  IF k > Len(elements) THEN Len(elements)
  ELSE IF ArrayElementLoop(SubSeq(elements, 1, k), 1, FALSE, "none", <<>>).val
            = NoValue
  THEN k
  ELSE LoopStopsAt(elements, k + 1)

\* every token ParseValue is called with while it parses the given token
RECURSIVE HandedTokens(_)
HandedTokens(value) ==
  {value} \cup
    (IF ReachesElementLoop(value)
     THEN LET elements == ArrayScan(value, 0, 0, FALSE, <<>>, <<>>).elements
          IN UNION {HandedTokens(elements[k]) :
                      k \in 1..LoopStopsAt(elements, 1)}
     ELSE {})

\* C24: no call of ParseValue made while a non-empty token is parsed, the
\* calls on the elements the array splitter produced included, is given
\* the empty token; the parse never ends in a fault.
C24_TokensNonEmpty ==
  TokenParsed =>
    /\ <<>> \notin HandedTokens(codec.tok)
    /\ codec.parsed.res # "Crash"

(***************************************************************************)
(* Claims about Tools::StringTrim, checked under SpecParse on the lines    *)
(* Parse trims.                                                            *)
(***************************************************************************)
\* C25: for every line Parse has read, StringTrim read only indices inside
\* the line and inside the header interior, its end index staying at 0 or
\* above, and the call did not end in a fault.
C25_StringTrimInside ==
  /\ \A i \in 1..Len(parser.text) :
       /\ TrimEnd(parser.text[i], Len(parser.text[i]) - 1) >= 0
            \/ parser.text[i] = <<>>
       /\ ~LineReadsOutside(parser.text[i])
  /\ parser.result # "Crash"

(***************************************************************************)
(* Claims about the root section, checked under SpecWrite.                 *)
(***************************************************************************)
\* a Parse call that reset the tree has returned
ResetParseReturned ==
  /\ parser.pc = "idle"
  /\ parser.result # "None"
  /\ ~parser.additional

\* no key/value line of the text comes before its first header line
NoPairBeforeHeader(text) ==
  \A i \in 1..Len(text) :
    IsOtherLine(text[i]) =>
      \E j \in 1..(i - 1) : text[j] # <<>> /\ text[j][1] = "["

\* C26: after a Parse call with additional = false, whatever its result,
\* the root section holds no key/value pair (while the call runs neither),
\* and the text Write produces for the tree has no key/value line before
\* its first header.
C26_RootHoldsNoValues ==
  /\ (ResetParseReturned \/ (parser.pc = "parsing" /\ ~parser.additional)) =>
       root.values = EmptyMap
  /\ (ResetParseReturned /\ last.op = "Write" /\ last.res = "Success") =>
       NoPairBeforeHeader(disk.text)

\* [a] / x = 1 was parsed from a caller's file and the tree written
C26_Witness ==
  /\ ResetParseReturned
  /\ parser.source = "stream"
  /\ parser.result = "Success"
  /\ parser.text = <<LineHeaderA, LineX1>>
  /\ last.op = "Write"
  /\ disk.text = <<LineHeaderA, LineX1, <<>> >>
  /\ root.values = EmptyMap

(***************************************************************************)
(* Claims about a file that cannot be opened, checked under SpecParse.     *)
(***************************************************************************)
\* a step in which Parse is called and returns FileIOError
OpenFails ==
  /\ parser.pc = "idle"
  /\ last'.op = "Parse"
  /\ parser'.pc = "idle"
  /\ parser'.result = "FileIOError"

\* C27: a Parse call that returns FileIOError leaves the tree as it was
\* before the call, with additional = true and with additional = false.
C27_FileIOErrorKeepsTree ==
  [][OpenFails => root' = root]_vars

(***************************************************************************)
(* Claims about the order of the headers of a file, checked under          *)
(* SpecParse.                                                              *)
(***************************************************************************)
\* the segments of a header line
SegmentsOf(line) == PathOf(HeaderPath(line))

\* p is the beginning of q
IsPrefix(p, q) == Len(p) <= Len(q) /\ SubSeq(q, 1, Len(p)) = p

\* the headers the running call has accepted so far
EarlierHeaders == {i \in 1..Len(parser.text) : IsNamedHeader(parser.text[i])}

\* C28: a header whose path is the beginning of the path of a header the
\* call accepted earlier (its section exists, if only because it was
\* created as an intermediate segment) ends the call with
\* SectionAlreadyPresent and leaves the tree as it is; in the other order
\* (in a call that started from the empty tree, a header whose path is the
\* beginning of no earlier header's path, whatever shorter headers came
\* before it) the header is accepted and its section exists afterwards.
C28_HeaderOrder ==
  [][(LineRead /\ IsNamedHeader(TheLine)) =>
       IF \E i \in EarlierHeaders :
            IsPrefix(SegmentsOf(TheLine), SegmentsOf(parser.text[i]))
       THEN /\ parser'.pc = "idle"
            /\ parser'.result = "SectionAlreadyPresent"
            /\ root' = root
       ELSE ~parser.additional =>
              /\ parser'.pc = "parsing"
              /\ Resolves(root', HeaderPath(TheLine),
                          SegmentCount(HeaderPath(TheLine)))]_vars

\* [a.b.c] / [a]: the second header finds a, made as the first segment of
\* the first header
C28_Witness ==
  /\ parser.pc = "idle"
  /\ parser.result = "SectionAlreadyPresent"
  /\ parser.text = <<HeaderABC, LineHeaderA>>
  /\ ~parser.additional
  /\ DOMAIN root.subSections = {<<"a">>}
  /\ DOMAIN root.subSections[<<"a">>].subSections = {<<"b">>}

(***************************************************************************)
(* Claims about additional mode, checked under SpecParse.                  *)
(***************************************************************************)
\* every section of the old tree but the one at the given path has the
\* same key/value pairs in the new tree
RECURSIVE PairsKept(_, _, _, _)
PairsKept(old, new, path, except) ==
  /\ path # except => new.values = old.values
  /\ \A c \in DOMAIN old.subSections :
       /\ c \in DOMAIN new.subSections
       /\ PairsKept(old.subSections[c], new.subSections[c], Append(path, c), except)

\* a step of a Parse call in additional mode that reads a line
AdditionalStep == parser.pc = "parsing" /\ parser.additional /\ LineRead

\* C29: in additional mode a header whose full path names a section of the
\* tree ends the call with SectionAlreadyPresent and changes nothing; a
\* header that is accepted makes current a section that did not exist and
\* holds no pair; and a line changes the pairs of no section but the
\* current one. So the call adds sections, and keys to the sections it
\* added, but no key to a section that was in the tree before.
C29_AdditionalMode ==
  [][AdditionalStep =>
       /\ (IsNamedHeader(TheLine)
             /\ Resolves(root, HeaderPath(TheLine), SegmentCount(HeaderPath(TheLine))))
            => /\ parser'.pc = "idle"
               /\ parser'.result = "SectionAlreadyPresent"
               /\ root' = root
       /\ (parser'.pc = "parsing" /\ parser'.currentSection # parser.currentSection)
            => /\ TheLine[1] = "["
               /\ IsNamedHeader(TheLine) =>
                    ~Resolves(root, HeaderPath(TheLine),
                              SegmentCount(HeaderPath(TheLine)))
               /\ SectionAt(root', parser'.currentSection[1]).values = EmptyMap
               /\ PairsKept(root, root', <<>>, <<"none">>)
       /\ parser'.currentSection = parser.currentSection
            => PairsKept(root, root', <<>>,
                         IF parser.currentSection = NullSection THEN <<"none">>
                         ELSE parser.currentSection[1])]_vars

\* the file [a] / x = 1 was parsed, then the file [a] in additional mode
C29_Witness ==
  /\ parser.pc = "idle"
  /\ parser.additional
  /\ parser.source = "stream"
  /\ parser.result = "SectionAlreadyPresent"
  /\ parser.text = <<LineHeaderA>>
  /\ DOMAIN root.subSections = {<<"a">>}
  /\ DOMAIN root.subSections[<<"a">>].values = {<<"x">>}

(***************************************************************************)
(* Claims about arrays of arrays, checked under SpecValue.                 *)
(***************************************************************************)
\* the elements of an array value have one class, and so have the elements
\* of every array among them
RECURSIVE HomogeneousByLevel(_)
HomogeneousByLevel(v) ==
  v.type = "Array" =>
    \A k \in 1..Len(v.value) :
      /\ v.value[k].type = v.value[1].type
      /\ HomogeneousByLevel(v.value[k])

TokenMixedInner == Bracketed(<<"[", "1", "]", ",", " ", "[", Quote, "a", Quote, "]">>)
TokenMixedElement == Bracketed(<<"[", "1", ",", Quote, "a", Quote, "]">>)
\* C30: ArrayValue::Parse compares the classes of the elements of one
\* array only: [[1], ["a"]], two arrays, is accepted although one holds an
\* integer and the other a string, and ArrayValue::ToString writes it back;
\* [[1,"a"]], whose inner array mixes the classes, is rejected; every
\* array that is accepted has elements of one class at each level, and its
\* ToString succeeds.
C30_NestedArrays ==
  TokenParsed =>
    /\ codec.tok = TokenMixedInner =>
         /\ codec.parsed.res = "Success"
         /\ codec.parsed.val.type = "Array"
         /\ Len(codec.parsed.val.value) = 2
         /\ codec.parsed.val.value[1].type = "Array"
         /\ codec.parsed.val.value[1].value[1].type = "Int"
         /\ codec.parsed.val.value[2].type = "Array"
         /\ codec.parsed.val.value[2].value[1].type = "String"
         /\ codec.phase \in {"written", "reparsed"} =>
              codec.text = [res |-> "Success", text |-> TokenMixedInner]
    /\ codec.tok = TokenMixedElement =>
         codec.parsed = Failed("ArrayDataTypeInconsistency")
    /\ (codec.parsed.val # NoValue /\ codec.parsed.val.type = "Array") =>
         /\ HomogeneousByLevel(codec.parsed.val)
         /\ codec.phase \in {"written", "reparsed"} => codec.text.res = "Success"

\* [[1], ["a"]] was parsed and written back
C30_Witness ==
  /\ codec.phase = "written"
  /\ codec.tok = TokenMixedInner
  /\ codec.parsed.res = "Success"
  /\ codec.text.text = TokenMixedInner

====
